---- MODULE Spec2Model ----
(***************************************************************************)
(* A model of wsl-mcp's session manager (session/manager.ts), its output   *)
(* poller (polling/output-poller.ts) and the output cleaners               *)
(* (utils/output: cleanOutput, cleanMarkers, cleanCommandEcho,             *)
(* cleanPrompt).                                                           *)
(*                                                                         *)
(* Text is a sequence of characters, each a one-character string; the      *)
(* control characters are written by name: "ESC" is \x1b, "BEL" is \x07,   *)
(* "BS" is \x08.                                                           *)
(***************************************************************************)
EXTENDS Integers, Sequences, FiniteSets, TLC

\* ------------------------------------------------------------------ text

ESC == "ESC"
BEL == "BEL"
BS == "BS"

Digit == {"0", "1", "2", "3", "4", "5", "6", "7", "8", "9"}
Lower == {"a", "b", "c", "d", "e", "f", "g", "h", "i", "j", "k", "l", "m",
          "n", "o", "p", "q", "r", "s", "t", "u", "v", "w", "x", "y", "z"}
Upper == {"A", "B", "C", "D", "E", "F", "G", "H", "I", "J", "K", "L", "M",
          "N", "O", "P", "Q", "R", "S", "T", "U", "V", "W", "X", "Y", "Z"}
Letter == Lower \cup Upper
\* JavaScript's white space, as far as the model's alphabet has it
Space == {" ", "\t", "\n", "\r"}

SetMax(S) == CHOOSE x \in S : \A y \in S : y <= x
SetMin(S) == CHOOSE x \in S : \A y \in S : x <= y

\* String.prototype.slice(from): the text from 0-based index `from` on
SliceFrom(s, from) == SubSeq(s, from + 1, Len(s))

\* String.prototype.slice(-n): the last n characters; -0 is 0, so slice(-0)
\* is the whole text
SliceLast(s, n) ==
    IF n = 0 \/ n >= Len(s) THEN s ELSE SubSeq(s, Len(s) - n + 1, Len(s))

\* String.prototype.substring(from, to): each index is brought into
\* 0..length, and the two are swapped when from is the greater
Substring(s, from, to) ==
    LET clamp(n) == IF n < 0 THEN 0 ELSE IF n > Len(s) THEN Len(s) ELSE n
        start    == IF clamp(from) < clamp(to) THEN clamp(from) ELSE clamp(to)
        end      == IF clamp(from) < clamp(to) THEN clamp(to) ELSE clamp(from)
    IN  SubSeq(s, start + 1, end)

\* does m occur in s at 0-based index i
OccursAt(s, m, i) ==
    /\ i >= 0
    /\ i + Len(m) <= Len(s)
    /\ SubSeq(s, i + 1, i + Len(m)) = m

\* String.prototype.includes
Includes(s, m) == \E i \in 0..Len(s) : OccursAt(s, m, i)

\* String.prototype.indexOf: the first 0-based index, or -1
IndexOf(s, m) ==
    LET at == {i \in 0..Len(s) : OccursAt(s, m, i)}
    IN  IF at = {} THEN 0 - 1 ELSE SetMin(at)

\* String.prototype.lastIndexOf: the last 0-based index, or -1
LastIndexOf(s, m) ==
    LET at == {i \in 0..Len(s) : OccursAt(s, m, i)}
    IN  IF at = {} THEN 0 - 1 ELSE SetMax(at)

\* String.prototype.trimEnd and trim
RECURSIVE TrimEnd(_)
TrimEnd(s) ==
    IF s # <<>> /\ s[Len(s)] \in Space THEN TrimEnd(SubSeq(s, 1, Len(s) - 1))
    ELSE s

RECURSIVE TrimStart(_)
TrimStart(s) ==
    IF s # <<>> /\ Head(s) \in Space THEN TrimStart(Tail(s)) ELSE s

Trim(s) == TrimStart(TrimEnd(s))

\* String.prototype.split(sep) for a one-character separator: always at
\* least one piece
RECURSIVE Split(_, _)
Split(s, sep) ==
    LET at == {i \in 1..Len(s) : s[i] = sep}
    IN  IF at = {} THEN <<s>>
        ELSE LET i == SetMin(at)
             IN  <<SubSeq(s, 1, i - 1)>> \o Split(SubSeq(s, i + 1, Len(s)), sep)

\* Array.prototype.join(sep)
RECURSIVE Join(_, _)
Join(parts, sep) ==
    IF parts = <<>> THEN <<>>
    ELSE IF Len(parts) = 1 THEN parts[1]
    ELSE parts[1] \o <<sep>> \o Join(Tail(parts), sep)

\* Array.prototype.filter, for a set `keep` of the indices that stay
RECURSIVE KeepIndices(_, _, _)
KeepIndices(parts, keep, i) ==
    IF i > Len(parts) THEN <<>>
    ELSE (IF i \in keep THEN <<parts[i]>> ELSE <<>>)
         \o KeepIndices(parts, keep, i + 1)

\* Number.prototype.toString for n >= 0, and parseInt(digits, 10)
DigitChar(d) == <<"0", "1", "2", "3", "4", "5", "6", "7", "8", "9">>[d + 1]
DigitValue(c) == CHOOSE d \in 0..9 : DigitChar(d) = c

RECURSIVE Decimal(_)
Decimal(n) ==
    IF n < 10 THEN <<DigitChar(n)>>
    ELSE Decimal(n \div 10) \o <<DigitChar(n % 10)>>

RECURSIVE ParseInt(_)
ParseInt(ds) ==
    IF ds = <<>> THEN 0
    ELSE 10 * ParseInt(SubSeq(ds, 1, Len(ds) - 1)) + DigitValue(ds[Len(ds)])

\* ---------------------------------------------------- regular expressions
\* The cleaners' regular expressions are sequences of quantified character
\* classes. An item is [set, neg, min, many]: a character matches when
\* (it is in set) # neg; the item takes at least min (0 or 1) characters and
\* at most one, or any number when many.

One(S) == [set |-> S, neg |-> FALSE, min |-> 1, many |-> FALSE]
Opt(S) == [set |-> S, neg |-> FALSE, min |-> 0, many |-> FALSE]
Star(S) == [set |-> S, neg |-> FALSE, min |-> 0, many |-> TRUE]
Plus(S) == [set |-> S, neg |-> FALSE, min |-> 1, many |-> TRUE]
Not(item) == [item EXCEPT !.neg = ~item.neg]
Lit(c) == One({c})
\* `.` matches anything but a line terminator
LineEnd == {"\n", "\r"}
AnyStar == Not(Star(LineEnd))
AnyPlus == Not(Plus(LineEnd))

RECURSIVE Lits(_)
Lits(s) == IF s = <<>> THEN <<>> ELSE <<Lit(Head(s))>> \o Lits(Tail(s))

InClass(item, c) == (c \in item.set) # item.neg

\* how many characters from 1-based position i on are in the item's class
RECURSIVE Run(_, _, _)
Run(item, s, i) ==
    IF i <= Len(s) /\ InClass(item, s[i]) THEN 1 + Run(item, s, i + 1) ELSE 0

\* the 1-based positions just after a match of items[k..] that starts at i
RECURSIVE Ends(_, _, _, _)
Ends(items, k, s, i) ==
    IF k > Len(items) THEN {i}
    ELSE LET item == items[k]
             run  == Run(item, s, i)
             most == IF item.many THEN run ELSE IF run > 0 THEN 1 ELSE 0
         IN  UNION {Ends(items, k + 1, s, i + n) : n \in item.min..most}

\* regex.test(s) for /^items/ and for /^items$/
TestPrefix(items, s) == Ends(items, 1, s, 1) # {}
TestWhole(items, s) == (Len(s) + 1) \in Ends(items, 1, s, 1)

\* the length of the (greedy) match at 1-based position i of the first of the
\* alternatives `alts` that matches there, 0 if none does
RECURSIVE MatchLen(_, _, _, _)
MatchLen(alts, a, s, i) ==
    IF a > Len(alts) THEN 0
    ELSE LET e == Ends(alts[a], 1, s, i)
         IN  IF e = {} THEN MatchLen(alts, a + 1, s, i) ELSE SetMax(e) - i

\* s.replace(/alt1|alt2|.../g, with) for an expression that matches no
\* empty text: from position i on, the text up to the next match is kept and
\* the match replaced, and so on after it
RECURSIVE ReplaceAll(_, _, _, _)
ReplaceAll(alts, with, s, i) ==
    LET at == {j \in i..Len(s) : MatchLen(alts, 1, s, j) > 0}
    IN  IF at = {} THEN SubSeq(s, i, Len(s))
        ELSE LET j == SetMin(at)
             IN  SubSeq(s, i, j - 1) \o with
                 \o ReplaceAll(alts, with, s, j + MatchLen(alts, 1, s, j))

Remove(items, s) == ReplaceAll(<<items>>, <<>>, s, 1)

\* s.replace(/\x1b(?!\[)/g, ''): drop every ESC that no "[" follows
RECURSIVE RemoveLoneEsc(_, _)
RemoveLoneEsc(s, i) ==
    LET at == {j \in i..Len(s) :
                 s[j] = ESC /\ ~(j < Len(s) /\ s[j + 1] = "[")}
    IN  IF at = {} THEN SubSeq(s, i, Len(s))
        ELSE SubSeq(s, i, SetMin(at) - 1) \o RemoveLoneEsc(s, SetMin(at) + 1)

\* lines.map(f).join('\n') with f = trimEnd
RECURSIVE MapTrimEnd(_)
MapTrimEnd(lines) ==
    IF lines = <<>> THEN <<>>
    ELSE <<TrimEnd(Head(lines))>> \o MapTrimEnd(Tail(lines))

\* ------------------------------------------------------------- cleaners

NumArg == Digit \cup {";"}
Alnum == Letter \cup Digit

\* the steps of cleanOutput, in the order of the source
StripSgr(s) == Remove(<<Lit(ESC), Lit("["), Star(NumArg), Lit("m")>>, s)
StripCursor(s) ==
    Remove(<<Lit(ESC), Lit("["), Star(NumArg),
             One({"A", "B", "C", "D", "H", "f", "J", "K"})>>, s)
StripOsc(s) ==
    ReplaceAll(<<
        <<Lit(ESC), Lit("]"), Not(Star({BEL, ESC})), Lit(BEL)>>,
        <<Lit(ESC), Lit("]"), Not(Star({BEL, ESC})), Lit(ESC), Lit("\\")>>
      >>, <<>>, s, 1)
StripCharset(s) ==
    Remove(<<Lit(ESC), One({"(", ")", "[", "]", "#", "+", "."}), Opt(Alnum)>>, s)
StripKeypad(s) == Remove(<<Lit(ESC), One({">", "<", "="})>>, s)
StripCsi(s) ==
    Remove(<<Lit(ESC), Lit("["), Star(NumArg), One(Letter)>>, s)
StripPrivateMode(s) ==
    Remove(<<Lit("["), Lit("?"), Plus(Digit), One({"h", "l"})>>, s)
StripPrivateRest(s) ==
    Remove(<<Lit("?"), Plus(Digit), One({"h", "l"})>>, s)
CrLfToLf(s) == ReplaceAll(<< <<Lit("\r"), Lit("\n")>> >>, <<"\n">>, s, 1)
CrToLf(s) == ReplaceAll(<< <<Lit("\r")>> >>, <<"\n">>, s, 1)
StripBackspace(s) == Remove(<<Lit(BS)>>, s)
StripBell(s) == Remove(<<Lit(BEL)>>, s)
CollapseBlankLines(s) ==
    ReplaceAll(<< <<Lit("\n"), Lit("\n"), Plus({"\n"})>> >>,
               <<"\n", "\n">>, s, 1)
TrimLineEnds(s) == Join(MapTrimEnd(Split(s, "\n")), "\n")

cleanOutput(output) ==
    LET r1  == StripSgr(output)
        r2  == StripCursor(r1)
        r3  == StripOsc(r2)
        r4  == StripKeypad(StripCharset(r3))
        r5  == StripCsi(r4)
        r6  == StripPrivateRest(StripPrivateMode(r5))
        r7  == CrToLf(CrLfToLf(r6))
        r8  == StripBell(StripBackspace(r7))
        r9  == RemoveLoneEsc(r8, 1)
        r10 == CollapseBlankLines(r9)
        r11 == TrimLineEnds(r10)
    IN  Trim(r11)

\* command.split(' ')[0]
FirstWord(command) == Split(command, " ")[1]

\* cleanCommandEcho without its test for blank lines
cleanCommandEchoKeepsBlank(output, command) ==
    LET lines == Split(output, "\n")
        commandFirstWord == FirstWord(command)
        echo  == {i \in 1..Len(lines) :
                    /\ commandFirstWord # <<>>
                    /\ Includes(Trim(lines[i]), commandFirstWord)}
        skipped == IF echo = {} THEN {} ELSE {SetMin(echo)}
        keep  == {i \in 1..Len(lines) : i \notin skipped}
    IN  Join(KeepIndices(lines, keep, 1), "\n")

\* cleanCommandEcho without commandEchoSkipped: every line with the word goes
cleanCommandEchoEvery(output, command) ==
    LET lines == Split(output, "\n")
        commandFirstWord == FirstWord(command)
        keep  == {i \in 1..Len(lines) :
                    /\ Trim(lines[i]) # <<>>
                    /\ ~(/\ commandFirstWord # <<>>
                         /\ Includes(Trim(lines[i]), commandFirstWord))}
    IN  Join(KeepIndices(lines, keep, 1), "\n")

cleanCommandEcho(output, command) ==
    LET lines == Split(output, "\n")
        commandFirstWord == FirstWord(command)
        blank(i) == Trim(lines[i]) = <<>>
        echo  == {i \in 1..Len(lines) :
                    /\ ~blank(i)
                    /\ commandFirstWord # <<>>
                    /\ Includes(Trim(lines[i]), commandFirstWord)}
        \* commandEchoSkipped: only the first such line is dropped
        skipped == IF echo = {} THEN {} ELSE {SetMin(echo)}
        keep  == {i \in 1..Len(lines) : ~blank(i) /\ i \notin skipped}
    IN  Join(KeepIndices(lines, keep, 1), "\n")

PromptMark == {"@", "$", "#"}
ARROW == "U276F"
UserAt == Lits(<<"u", "s", "e", "r", "@">>)
DollarEcho == Lits(<<"$", "e", "c", "h", "o">>)
EchoQuoteEq == <<"e", "c", "h", "o", "'", "=", "=", "=">>
EchoDQuoteEq == <<"e", "c", "h", "o", " ", "\"", "=", "=", "=">>

IsPromptLine(line) ==
    LET trimmed == Trim(line)
    IN  \/ TestPrefix(<<Lit("("), AnyPlus, Lit(")"), Star(Space),
                        One(PromptMark)>>, trimmed)
        \/ TestPrefix(<<Lit("("), AnyPlus, Lit(")"), One(PromptMark)>>, trimmed)
        \/ TestPrefix(<<Lit("["), AnyPlus, Lit("]"), One(PromptMark)>>, trimmed)
        \/ TestWhole(<<One({"$", "#", ">"}), Star(Space)>>, trimmed)
        \/ TestWhole(<<Lit(ARROW), Star(Space)>>, trimmed)
        \/ TestWhole(<<Lit("~"), Star(Space)>>, trimmed)
        \/ TestWhole(<<Lit("%"), Star(Space)>>, trimmed)
        \/ TestWhole(UserAt \o <<AnyStar, Lit(":"), Opt({"~"}), Opt({"$"}),
                                 Star(Space)>>, trimmed)
        \/ TestWhole(UserAt \o <<AnyStar, Lit(":"), Not(Plus(Space)),
                                 Opt({"$"}), Star(Space)>>, trimmed)
        \/ TestPrefix(<<Lit("("), AnyStar, Lit(")"), AnyStar, Lit("@"), AnyStar,
                        Lit(":"), AnyStar>> \o DollarEcho, trimmed)
        \/ TestPrefix(<<AnyStar, Lit("@"), AnyStar, Lit(":"), AnyStar>>
                      \o DollarEcho, trimmed)
        \/ Includes(trimmed, EchoQuoteEq)
        \/ Includes(trimmed, EchoDQuoteEq)

KeepNonPrompt(line) == ~IsPromptLine(line)
\* output.split('\n').filter(...).join('\n')
cleanPrompt(output) ==
    LET lines == Split(output, "\n")
        keep  == {i \in 1..Len(lines) : KeepNonPrompt(lines[i])}
    IN  Join(KeepIndices(lines, keep, 1), "\n")

EchoOfMarker ==
    Lits(<<"e", "c", "h", "o">>)
    \o <<Plus(Space), One({"'", "\""}), AnyStar, Lit("="), Lit("="), Lit("=")>>

cleanMarkers(output, markers) ==
    LET keep(line) ==
            LET trimmed == Trim(line)
            IN  /\ ~Includes(trimmed, markers.startMarker)
                /\ ~Includes(trimmed, markers.endMarker)
                /\ ~Includes(trimmed, markers.exitMarker)
                /\ ~TestPrefix(EchoOfMarker, trimmed)
        lines == Split(output, "\n")
        kept  == {i \in 1..Len(lines) : keep(lines[i])}
    IN  Join(KeepIndices(lines, kept, 1), "\n")

\* --------------------------------------------------------- the markers

\* `===START${timestamp}===`, `===END${timestamp}===`, `===EXIT${timestamp}===`
Eq3 == <<"=", "=", "=">>
StartMarker(timestamp) ==
    Eq3 \o <<"S", "T", "A", "R", "T">> \o Decimal(timestamp) \o Eq3
EndMarker(timestamp) == Eq3 \o <<"E", "N", "D">> \o Decimal(timestamp) \o Eq3
ExitMarker(timestamp) ==
    Eq3 \o <<"E", "X", "I", "T">> \o Decimal(timestamp) \o Eq3
Markers(timestamp) ==
    [startMarker |-> StartMarker(timestamp),
     endMarker |-> EndMarker(timestamp),
     exitMarker |-> ExitMarker(timestamp)]

\* ------------------------------------------------- a command's result

\* exitCode: null
NullExit == 0 - 1

\* What a call gives back: nothing yet (kind "none"), a thrown error with its
\* code, a CommandResult ("result"), the session createSession made
\* ("session"), a PollResult ("poll": output, hasNewContent, isComplete,
\* exitCode, status, error), the number cleanupCompleted returns ("count"),
\* or undefined ("void"). error: the error field is set.
NoResult ==
    [kind |-> "none", code |-> "", output |-> <<>>, exitCode |-> NullExit,
     success |-> FALSE, timedOut |-> FALSE, error |-> FALSE,
     hasNewContent |-> FALSE, isComplete |-> FALSE, status |-> "", count |-> 0]

\* a call that returns undefined
Void == [NoResult EXCEPT !.kind = "void"]

\* a thrown TerminalError (or, with code "Error", a plain Error)
Thrown(code) == [NoResult EXCEPT !.kind = "error", !.code = code]

\* a timeout reported as a command that printed nothing and succeeded
TimeoutAsSuccess ==
    [NoResult EXCEPT !.kind = "result", !.exitCode = 0, !.success = TRUE]

\* the CommandResult of a timeout
TimeoutResult ==
    [NoResult EXCEPT !.kind = "result", !.timedOut = TRUE, !.error = TRUE]

\* the first digit alone after the first occurrence of the exit marker that a
\* digit follows
ExitMatchOneDigit(output, exitMarker) ==
    LET n  == Len(exitMarker)
        at == {i \in 0..Len(output) :
                 /\ OccursAt(output, exitMarker, i)
                 /\ i + n < Len(output)
                 /\ output[i + n + 1] \in Digit}
    IN  IF at = {} THEN <<>> ELSE <<output[SetMin(at) + n + 1]>>

\* output.match(new RegExp(`${exitMarker}(\\d+)`)): the digits after the first
\* occurrence of the exit marker that digits follow, <<>> if there is none
ExitMatch(output, exitMarker) ==
    LET n  == Len(exitMarker)
        at == {i \in 0..Len(output) :
                 /\ OccursAt(output, exitMarker, i)
                 /\ i + n < Len(output)
                 /\ output[i + n + 1] \in Digit}
    IN  IF at = {} THEN <<>>
        ELSE LET i == SetMin(at)
             IN  SubSeq(output, i + n + 1, i + n + Run(Plus(Digit), output, i + n + 1))

\* the four cleaners, in the order executeCommand applies them
CleanResult(text, command, markers) ==
    cleanPrompt(cleanCommandEcho(cleanMarkers(cleanOutput(text), markers), command))

\* what executeCommand returns once the end marker was found
ParseOutput(output, command, timestamp) ==
    LET startMarker == StartMarker(timestamp)
        endMarker   == EndMarker(timestamp)
        exitMarker  == ExitMarker(timestamp)
        startIdx    == LastIndexOf(output, startMarker)
        endIdx      == LastIndexOf(output, endMarker)
    IN  IF startIdx = 0 - 1 \/ endIdx = 0 - 1 \/ startIdx >= endIdx
        THEN [NoResult EXCEPT !.kind = "result", !.output = cleanOutput(output),
                              !.exitCode = 0, !.success = TRUE]
        ELSE LET exitMatch == ExitMatch(output, exitMarker)
                 exitCode  == IF exitMatch # <<>> THEN ParseInt(exitMatch) ELSE 0
                 result    == Substring(output, startIdx + Len(startMarker), endIdx)
             IN  [NoResult EXCEPT
                    !.kind = "result",
                    !.output = CleanResult(result, command, Markers(timestamp)),
                    !.exitCode = exitCode, !.success = (exitCode = 0)]

\* ------------------------------------------------------------- bounds

\* config.maxSessions of the model's session manager
MaxSessions == 1
\* session ids: one more than the store may hold
SessionIds == 1..(MaxSessions + 1)
\* session objects (and ptys) ever allocated
MaxObjs == 2
\* calls in progress at once
NumTasks == 2
\* background process records ever allocated
MaxProcs == 1
\* LogTailState records ever allocated
MaxTails == 1
\* the clock (Date.now()) stops here
MaxTime == 2
\* the largest timeout a caller passes, in clock ticks
MaxTimeout == 1
\* config.defaultTimeout, which is longer than the timeouts callers pass
DefaultTimeout == MaxTimeout + 1
\* interrupts written to one session's pty
MaxInterrupts == 2
\* config.maxBufferSize: room for the output of one short command
BufferSize == 40
\* the poller's maxBufferSize option
ProcBufferSize == 5
\* a session buffer the output of one command does not fit in
SmallBufferSize == 12
\* a session buffer the output of any one command fits in
ShellBufferSize == 64

Objs == 1..MaxObjs
\* the calls that await: createSession, executeCommand, startProcess
Tasks == 1..NumTasks
\* those, and call 0: the calls that run to their end at once (closeSession,
\* poll, stopProcess, cleanupCompleted)
Calls == 0..NumTasks
Procs == 1..MaxProcs
Tails == 1..MaxTails

\* ---------------------------------------------------------------- state

VARIABLES
    now,        \* Date.now()
    config,     \* SessionManager.config: maxSessions, maxBufferSize
    sessions,   \* SessionManager.sessions: session id -> session object, 0 if none
    sess,       \* the TerminalSession objects, each with its pty and shell
    nextObj,    \* the next session object to allocate
    task,       \* the calls in progress: createSession, executeCommand, background
    procs,      \* the BackgroundProcess objects
    nextProc,   \* the next BackgroundProcess to allocate
    tails,      \* the LogTailState objects
    tailOp,     \* per call: the log tailer operation that runs it, if one does
    file,       \* the size of the log file in the session's file system
    cleaner,    \* the text an output cleaner is applied to, and what was applied
    retry       \* a withRetry call: its configuration, attempt and delay

\* the log tailer's part of the state
tailer == <<tails, tailOp, file>>

\* the state of the functions of utils/errors.ts
utils == <<cleaner, retry>>

vars ==
    <<now, config, utils, tailer, sessions, sess, nextObj, task, procs, nextProc>>

\* A session object that is not allocated yet. pty is the state of its
\* ptyProcess, ptyInput the lines written to it that its shell has not read
\* yet, ptyEchoed how many of these the terminal has echoed, ptyInterrupts
\* the interrupts written to it that its shell has not answered yet, and
\* ptyStatus the shell's $?. interrupts is history: how many interrupts
\* were written to the pty; so is abandoned: an executeCommand on the
\* session timed out; so is wasClosed: closeSession or handleExit has set
\* the status to closed, whatever it is now; so is beforeCloseAll: the
\* session's createSession had started when closeAllSessions was called.
NoSession ==
    [id |-> 0, status |-> "none", outputBuffer |-> <<>>, maxBufferSize |-> 0,
     lastCommand |-> <<>>, pty |-> "none", ptyInput |-> <<>>, ptyEchoed |-> 0,
     ptyInterrupts |-> 0, ptyStatus |-> 0, interrupts |-> 0,
     abandoned |-> FALSE,
     wasClosed |-> FALSE, beforeCloseAll |-> FALSE]

\* a session object nothing refers to any more, its pty gone: handleExit
\* has closed it
Collected(id) ==
    [NoSession EXCEPT !.id = id, !.status = "closed", !.pty = "exited",
                      !.wasClosed = TRUE]

\* A call slot that is free. Of a call in progress it holds the arguments
\* (sessionId, command, timeout), the locals (obj: its `session`; startTime,
\* timestamp, startTimeWait; proc: the BackgroundProcess of a background
\* command), where it is (pc) and, once it ended, its result or error (res).
\* toClosed is history: the call was addressed to a session that was closed;
\* so is killThrew: the call's ptyProcess.kill() threw; so is
\* beforeCloseAll: the call is a createSession that waited for its pty when
\* closeAllSessions was called. incremental is the argument of poll.
IdleTask ==
    [op |-> "none", pc |-> "idle", sessionId |-> 0, command |-> <<>>,
     timeout |-> 0, obj |-> 0, startTime |-> 0, timestamp |-> 0,
     startTimeWait |-> 0, proc |-> 0, incremental |-> FALSE, res |-> NoResult,
     toClosed |-> FALSE, killThrew |-> FALSE, beforeCloseAll |-> FALSE]

\* a BackgroundProcess that is not allocated yet; present: it is in the
\* poller's map; listening: its outputListener is attached to the pty of obj.
\* sincePoll is history: what outputListener was given since the last poll.
NoProc ==
    [present |-> FALSE, sessionId |-> 0, obj |-> 0, command |-> <<>>,
     status |-> "none", outputBuffer |-> <<>>, readPosition |-> 0,
     maxBufferSize |-> 0, exitCode |-> NullExit, error |-> FALSE,
     listening |-> FALSE, sincePoll |-> <<>>]

\* a LogTailState that is not allocated yet; present: it is in the tailer's
\* map; idReturned: startTailing has returned its id; error: the error field
\* is set
NoTail ==
    [present |-> FALSE, idReturned |-> FALSE, sessionId |-> 0,
     status |-> "none", readPosition |-> 0,
     error |-> FALSE]

\* A call that no tailer operation runs. Of a call that one runs: the
\* operation, its LogTailState, which of its shell commands is under way
\* (stage), config.lines of startTailing, and the output of the first command
\* while getIncrementalLogs runs its second. from is history: the read
\* position the operation's read command was made with.
NoTailOp ==
    [op |-> "none", tail |-> 0, stage |-> 0, lines |-> 0, output |-> <<>>,
     from |-> 0]

\* no cleaner applied to any text
NoCleaner ==
    [text |-> <<>>, command |-> <<>>, timestamp |-> 0, fn |-> "none",
     input |-> <<>>, marked |-> FALSE]

\* what a call of fn, or withRetry itself, ends with: a value or an error,
\* which is a TerminalError with a code or something else; Null is the
\* initial lastError
Outcome(kind, terminal, code) ==
    [kind |-> kind, terminal |-> terminal, code |-> code]
Null == Outcome("null", FALSE, "none")
Value == Outcome("value", FALSE, "none")

\* No withRetry call made. config is its second argument (filtered: retryOn
\* is given); attempt, delay and lastError are its locals. History: calls
\* is what each call of fn ended with, slept the delays slept so far.
NoRetry ==
    [pc |-> "idle",
     config |-> [maxRetries |-> 0, delay |-> 0, backoff |-> FALSE,
                 filtered |-> FALSE, retryOn |-> {}],
     attempt |-> 0, delay |-> 0, lastError |-> Null,
     calls |-> <<>>, slept |-> <<>>, outcome |-> Null]

\* the state after the SessionManager's construction
InitManager(cfg) ==
    /\ now = 0
    /\ config = cfg
    /\ sessions = [i \in SessionIds |-> 0]
    /\ sess = [o \in Objs |-> NoSession]
    /\ nextObj = 1
    /\ task = [c \in Calls |-> IdleTask]
    /\ procs = [p \in Procs |-> NoProc]
    /\ nextProc = 1
    /\ tails = [t \in Tails |-> NoTail]
    /\ tailOp = [c \in Calls |-> NoTailOp]
    /\ file = 0

InitWith(cfg) ==
    /\ InitManager(cfg)
    /\ cleaner = NoCleaner
    /\ retry = NoRetry

\* this.sessions.size
StoreSize == Cardinality({i \in SessionIds : sessions[i] # 0})

\* A call that ended hands its result (or the error thrown) to its caller's
\* continuation, which runs before anything else does.
Returning == \E c \in Calls : task[c].pc = "done"

\* A call whose `await` has a settled promise to continue from runs before any
\* timer or pty event: those wait while such a continuation is pending.
MicrotaskPending == \E c \in Calls : task[c].pc \in {"resolved", "done"}

\* A session object whose pty has exited and that neither the store, nor a
\* call, nor an attached listener refers to is garbage.
Collect(S, M, T, P) ==
    [o \in Objs |->
        IF /\ S[o].pty = "exited"
           /\ \A i \in SessionIds : M[i] # o
           /\ \A c \in Calls : T[c].obj # o
           /\ \A p \in Procs : ~(P[p].listening /\ P[p].obj = o)
        THEN Collected(S[o].id) ELSE S[o]]

\* the step to session objects S, store M, calls T and processes P
Step(S, M, T, P) ==
    /\ sessions' = M
    /\ task' = T
    /\ procs' = P
    /\ sess' = Collect(S, M, T, P)

\* ---------------------------------------------------------- the pty side

\* SessionManager.handleOutput
handleOutput(session, data) ==
    LET appended == session.outputBuffer \o data
    IN  [session EXCEPT !.outputBuffer =
            IF Len(appended) > session.maxBufferSize
            THEN SliceLast(appended, session.maxBufferSize)
            ELSE appended]

\* a read position moved back without the clamp
Unclamped(n) == n

\* Math.max(0, n)
ClampAtZero(n) == IF n > 0 THEN n ELSE 0

\* a listener that trims the buffer and leaves the read position where it is
outputListenerKeepsCursor(process, data) ==
    LET appended == process.outputBuffer \o data
        excess   == Len(appended) - process.maxBufferSize
    IN  [process EXCEPT
            !.outputBuffer = IF excess > 0 THEN SliceFrom(appended, excess)
                             ELSE appended,
            !.sincePoll = process.sincePoll \o data]

\* OutputPoller.executeBackgroundCommand's outputListener
outputListener(process, data) ==
    LET appended == process.outputBuffer \o data
        excess   == Len(appended) - process.maxBufferSize
    IN  IF Len(appended) > process.maxBufferSize
        THEN [process EXCEPT
                !.outputBuffer = SliceFrom(appended, excess),
                !.readPosition = ClampAtZero(process.readPosition - excess),
                !.sincePoll = process.sincePoll \o data]
        ELSE [process EXCEPT !.outputBuffer = appended,
                             !.sincePoll = process.sincePoll \o data]

\* an exit handler that leaves the store as it is
handleExitKeeps(session) == sessions

\* SessionManager.handleExit: the session is closed and its id leaves the store
handleExitSession(session) ==
    [session EXCEPT !.status = "closed", !.wasClosed = TRUE]
handleExitStore(session) == [sessions EXCEPT ![session.id] = 0]

\* the lines executeCommand writes to the pty
EchoLine(marker, rest) ==
    <<"e", "c", "h", "o", " ", "'">> \o marker \o <<"'">> \o rest \o <<"\n">>
\* the four lines with the exit-marker echo written last
CommandLinesExitLast(command, timestamp) ==
    << EchoLine(StartMarker(timestamp), <<>>),
       command \o <<"\n">>,
       EchoLine(EndMarker(timestamp), <<>>),
       EchoLine(ExitMarker(timestamp), <<"$", "?">>) >>

\* the lines executeCommand writes to the pty
CommandLines(command, timestamp) ==
    << EchoLine(StartMarker(timestamp), <<>>),
       command \o <<"\n">>,
       EchoLine(ExitMarker(timestamp), <<"$", "?">>),
       EchoLine(EndMarker(timestamp), <<>>) >>

\* the interrupt stopProcess writes: '\x03'
CtrlC == <<"ETX">>

\* What the terminal does with the interrupt the moment it is written: the
\* written lines the shell has not read yet are discarded (a command among
\* them never runs; one that was running is killed), and the shell is
\* signalled. The shell answers the interrupts that are pending together,
\* once. What it then prints depends on the shell: a newline (sh), or "^C"
\* and a newline (bash), or, under a command with echo on, a "^C" for each
\* pending interrupt and a newline; its $? is 130 afterwards.
RECURSIVE Carets(_)
Carets(n) == IF n = 0 THEN <<>> ELSE <<"^", "C">> \o Carets(n - 1)
InterruptPrints(pending) ==
    { <<"\n">> } \cup { Carets(n) \o <<"\n">> : n \in 1..pending }
InterruptStatus == 128 + 2

\* The shell behind a pty, as the spec's scenarios have it. It reads one
\* written line at a time. `echo '<text>'` prints the text and a newline,
\* `echo '<text>'$?` the text, the last exit status and a newline; any
\* other line is a command that prints `out` and exits with `code`.
EchoPrefix == <<"e", "c", "h", "o", " ", "'">>
IsEcho(line) ==
    /\ Len(line) > Len(EchoPrefix) + 1
    /\ SubSeq(line, 1, Len(EchoPrefix)) = EchoPrefix
    /\ \E i \in (Len(EchoPrefix) + 1)..Len(line) : line[i] = "'"
EchoText(line) ==
    LET close == SetMax({i \in 1..Len(line) : line[i] = "'"})
    IN  SubSeq(line, Len(EchoPrefix) + 1, close - 1)
EchoHasStatus(line) ==
    LET close == SetMax({i \in 1..Len(line) : line[i] = "'"})
    IN  SubSeq(line, close + 1, Len(line)) = <<"$", "?", "\n">>
ShellPrints(line, status, out) ==
    IF IsEcho(line)
    THEN EchoText(line)
         \o (IF EchoHasStatus(line) THEN Decimal(status) ELSE <<>>) \o <<"\n">>
    ELSE out
ShellStatus(line, status, code) == IF IsEcho(line) THEN 0 ELSE code

\* the data event of a pty: the session's onData callback, then every poller
\* listener attached to that pty
OnData(S, o, data) == [S EXCEPT ![o] = handleOutput(S[o], data)]
OnDataProcs(o, data) ==
    [p \in Procs |->
        IF procs[p].listening /\ procs[p].obj = o
        THEN outputListener(procs[p], data) ELSE procs[p]]

\* the shell of session object o answers the pending interrupts: what it
\* prints arrives as one data event
ShellInterrupted(o, prints) ==
    /\ ~MicrotaskPending
    /\ sess[o].pty = "alive"
    /\ sess[o].ptyInterrupts > 0
    /\ prints \in InterruptPrints(sess[o].ptyInterrupts)
    /\ LET read == [sess EXCEPT
                      ![o].ptyInterrupts = 0,
                      ![o].ptyStatus = InterruptStatus]
       IN  Step(OnData(read, o, prints), sessions, task, OnDataProcs(o, prints))
    /\ UNCHANGED <<now, config, utils, tailer, nextObj, nextProc>>

\* what the terminal makes of the output written to it: with ONLCR off it
\* passes it on as it is, with ONLCR on it sends each newline as "\r\n"
RECURSIVE Onlcr(_)
Onlcr(text) ==
    IF text = <<>> THEN <<>>
    ELSE (IF Head(text) = "\n" THEN <<"\r", "\n">> ELSE <<Head(text)>>)
         \o Onlcr(Tail(text))

\* the shell of session object o reads the next line written to its pty and
\* runs it, once it has answered the interrupts; what it prints arrives, as
\* the terminal sends it, as one data event
ShellDelivers(o, out, code, onlcr) ==
    /\ ~MicrotaskPending
    /\ sess[o].pty = "alive"
    /\ sess[o].ptyInterrupts = 0
    /\ sess[o].ptyInput # <<>>
    /\ LET line == Head(sess[o].ptyInput)
           printed == ShellPrints(line, sess[o].ptyStatus, out)
           data == IF onlcr THEN Onlcr(printed) ELSE printed
           read == [sess EXCEPT
                      ![o].ptyInput = Tail(sess[o].ptyInput),
                      ![o].ptyEchoed = ClampAtZero(sess[o].ptyEchoed - 1),
                      ![o].ptyStatus = ShellStatus(line, sess[o].ptyStatus, code)]
       IN  IF data = <<>>
           THEN Step(read, sessions, task, procs)
           ELSE Step(OnData(read, o, data), sessions, task, OnDataProcs(o, data))
    /\ UNCHANGED <<now, config, utils, tailer, nextObj, nextProc>>

\* the same on a terminal that does not echo and leaves the newlines alone
ShellRun(o, out, code) == ShellDelivers(o, out, code, FALSE)

\* What a terminal that echoes its input prints of a written line: the line,
\* its newline sent as "\r\n".
TtyEcho(line) ==
    IF line # <<>> /\ line[Len(line)] = "\n"
    THEN SubSeq(line, 1, Len(line) - 1) \o <<"\r", "\n">>
    ELSE line

\* the terminal of session object o echoes the next written line it has not
\* echoed yet, whatever the shell is doing; the echo arrives as a data event
PtyEcho(o) ==
    /\ ~MicrotaskPending
    /\ sess[o].pty = "alive"
    /\ sess[o].ptyEchoed < Len(sess[o].ptyInput)
    /\ LET data == TtyEcho(sess[o].ptyInput[sess[o].ptyEchoed + 1])
           read == [sess EXCEPT ![o].ptyEchoed = sess[o].ptyEchoed + 1]
       IN  Step(OnData(read, o, data), sessions, task, OnDataProcs(o, data))
    /\ UNCHANGED <<now, config, utils, tailer, nextObj, nextProc>>

\* the shell of an echoing terminal, a pty with its defaults ECHO and ONLCR,
\* reads a line after its echo; the newlines of what it prints arrive as
\* "\r\n", like those of the echo
ShellRunEchoed(o, out, code) ==
    /\ sess[o].ptyEchoed > 0
    /\ ShellDelivers(o, out, code, TRUE)

\* the pty of session object o exits: the onExit callback
PtyExit(o) ==
    /\ ~MicrotaskPending
    /\ sess[o].pty \in {"alive", "killed"}
    /\ Step([sess EXCEPT ![o] = [handleExitSession(sess[o]) EXCEPT
                                    !.pty = "exited", !.ptyInput = <<>>,
                                    !.ptyEchoed = 0, !.ptyInterrupts = 0]],
            handleExitStore(sess[o]), task, procs)
    /\ UNCHANGED <<now, config, utils, tailer, nextObj, nextProc>>

\* where an executeCommand is before each of its four writes, and after the
\* last
WritePcs == <<"write", "midwrite1", "midwrite2", "midwrite3", "poll">>
Writing == {WritePcs[n] : n \in 1..4}
WriteIndex(pc) == CHOOSE n \in 1..4 : WritePcs[n] = pc

\* time passes; the clock is read by the calls that sleep alone, and the model
\* lets it advance only while one does
TickUntil(last) ==
    /\ ~MicrotaskPending
    /\ \E c \in Tasks : task[c].pc \in Writing \cup {"poll"}
    /\ now < last
    /\ now' = now + 1
    /\ UNCHANGED <<config, utils, tailer, sessions, sess, nextObj, task, procs, nextProc>>

Tick ==
    /\ now < MaxTime
    /\ TickUntil(MaxTime)

\* the same with time for startTailing and two getIncrementalLogs in a row:
\* five commands
LogTick ==
    /\ now < MaxTime + 3
    /\ TickUntil(MaxTime + 3)

\* the same with time for a command after one that timed out
LateTick ==
    /\ now < MaxTime + 1
    /\ TickUntil(MaxTime + 1)

\* ------------------------------------------------------ session manager

\* a new call takes the first free slot
Free(c) ==
    /\ ~Returning
    /\ task[c].pc = "idle"
    /\ \A d \in Tasks : d < c => task[d].pc # "idle"

\* a call ends with `res`, a result or the error thrown
Done(t, res) == [t EXCEPT !.pc = "done", !.res = res]
Ended(c, res) == [task EXCEPT ![c] = Done(task[c], res)]

\* A session of this id was closed, by closeSession or by handleExit, and no
\* newer one has taken its place in the store. (What the status of the
\* closed object is now does not matter: an executeCommand that was in
\* flight sets it back to ready.)
ClosedId(id) ==
    /\ sessions[id] = 0
    /\ \E o \in Objs : sess[o].id = id /\ sess[o].wasClosed

\* a capacity check that lets one session too many in
OverCapacity == StoreSize > config.maxSessions

\* this.sessions.size >= this.config.maxSessions
AtCapacity == StoreSize >= config.maxSessions

\* the createSession calls that wait for backend.createPty
AwaitingPty == {c \in Tasks : task[c].pc = "createPty"}

\* createSession({id}) up to `await this.backend.createPty(...)`: the two
\* checks; a call that passes them waits for the pty. (The model has
\* session objects for so many ptys only.)
createSessionStart(c, op, id, command, timeout) ==
    LET t == [IdleTask EXCEPT !.op = op, !.sessionId = id,
                              !.command = command, !.timeout = timeout,
                              !.toClosed = ClosedId(id)]
        failed(code) == Done(t, Thrown(code))
    IN  IF AtCapacity
        THEN task' = [task EXCEPT ![c] = failed("MAX_SESSIONS_REACHED")]
        ELSE IF sessions[id] # 0
        THEN task' = [task EXCEPT ![c] = failed("SESSION_ALREADY_EXISTS")]
        ELSE /\ nextObj + Cardinality(AwaitingPty) <= MaxObjs
             /\ task' = [task EXCEPT ![c] = [t EXCEPT !.pc = "createPty"]]

\* getOrCreateSession(id) up to its first await
getOrCreateSessionStart(c, op, id, command, timeout) ==
    IF sessions[id] # 0
    THEN task' = [task EXCEPT ![c] =
                    [IdleTask EXCEPT !.op = op, !.sessionId = id,
                                     !.command = command, !.timeout = timeout,
                                     !.obj = sessions[id], !.pc = "resolved"]]
    ELSE createSessionStart(c, op, id, command, timeout)

\* a caller calls createSession({id})
CreateSession(c, id) ==
    /\ Free(c)
    /\ createSessionStart(c, "create", id, <<>>, 0)
    /\ UNCHANGED <<now, config, utils, tailer, sessions, sess, nextObj, procs,
                   nextProc>>

\* backend.createPty settles. If it rejects (ptyOk false), createSession
\* throws; otherwise createSession makes the session object around the
\* pty, registers its onData and onExit callbacks and sleeps.
CreatePty(c, ptyOk) ==
    /\ ~MicrotaskPending
    /\ task[c].pc = "createPty"
    /\ IF ~ptyOk
       THEN /\ task' = Ended(c, Thrown("SESSION_CREATE_FAILED"))
            /\ UNCHANGED <<sess, nextObj>>
       ELSE /\ sess' = [sess EXCEPT ![nextObj] =
                          [NoSession EXCEPT !.id = task[c].sessionId,
                                            !.status = "initializing",
                                            !.maxBufferSize = config.maxBufferSize,
                                            !.pty = "alive",
                                            !.beforeCloseAll = task[c].beforeCloseAll]]
            /\ nextObj' = nextObj + 1
            /\ task' = [task EXCEPT ![c].pc = "settle", ![c].obj = nextObj]
    /\ UNCHANGED <<now, config, utils, tailer, sessions, procs, nextProc>>

\* createSession after `await sleep(500)`: the session is marked ready and
\* stored; createSession returns it, getOrCreateSession hands it on
CreateSettled(c) ==
    /\ ~MicrotaskPending
    /\ task[c].pc = "settle"
    /\ Step([sess EXCEPT ![task[c].obj].status = "ready"],
            [sessions EXCEPT ![task[c].sessionId] = task[c].obj],
            IF task[c].op = "create"
            THEN Ended(c, [NoResult EXCEPT !.kind = "session"])
            ELSE [task EXCEPT ![c].pc = "resolved"],
            procs)
    /\ UNCHANGED <<now, config, utils, tailer, nextObj, nextProc>>

\* ptyProcess.kill(), which may throw
Kill(session, throws) ==
    [session EXCEPT !.pty = IF ~throws /\ session.pty = "alive"
                            THEN "killed" ELSE session.pty]

\* a call that runs to its end at once gives back `res`
Sync(op, id, p, res) ==
    [task EXCEPT ![0] = Done([IdleTask EXCEPT !.op = op, !.sessionId = id,
                                              !.proc = p], res)]

\* a closeSession that leaves the session in the store
sessionsKeep(id) == sessions

\* this.sessions.delete(id)
sessionsDelete(id) == [sessions EXCEPT ![id] = 0]

\* closeSession(id); of an unknown id it returns at once
CloseSession(id, killThrows) ==
    /\ ~Returning
    /\ LET o == sessions[id]
       IN  IF o = 0
           THEN Step(sess, sessions, Sync("close", id, 0, Void), procs)
           ELSE Step([sess EXCEPT ![o] = [Kill(sess[o], killThrows) EXCEPT
                                            !.status = "closed",
                                            !.wasClosed = TRUE]],
                     sessionsDelete(id),
                     [Sync("close", id, 0, Void)
                        EXCEPT ![0].killThrew = killThrows],
                     procs)
    /\ UNCHANGED <<now, config, utils, tailer, nextObj, nextProc>>

\* an outcome that records every command as completed
BackgroundCompleted(process, res) ==
    [process EXCEPT !.exitCode = res.exitCode, !.status = "completed",
                    !.listening = FALSE]

\* what the wrapped executeCommand's outcome does to its BackgroundProcess:
\* the try / catch / finally of executeBackgroundCommand
BackgroundOutcome(process, res) ==
    IF res.kind = "result"
    THEN [process EXCEPT !.exitCode = res.exitCode,
                         !.status = IF res.success THEN "completed" ELSE "error",
                         !.error = res.error,
                         !.listening = FALSE]
    ELSE [process EXCEPT !.status = "error", !.error = TRUE,
                         !.listening = FALSE]

\* an emptiness check that does not trim
IsEmptyUntrimmed(command) == command = <<>>

\* !context.command || context.command.trim() === ''
IsEmptyCommand(command) == command = <<>> \/ Trim(command) = <<>>

\* a caller calls executeCommand({sessionId, command, timeout})
ExecuteCommand(c, id, command, timeout) ==
    /\ Free(c)
    /\ IF IsEmptyCommand(command)
       THEN task' = [task EXCEPT ![c] =
                       Done([IdleTask EXCEPT !.op = "exec", !.sessionId = id,
                                             !.command = command,
                                             !.toClosed = ClosedId(id)],
                            Thrown("COMMAND_EMPTY"))]
       ELSE getOrCreateSessionStart(c, "exec", id, command, timeout)
    /\ UNCHANGED <<now, config, utils, tailer, sessions, sess, nextObj, procs,
                   nextProc>>

\* a busy check that never refuses
IsBusyNever(session) == FALSE

\* a way out of the wait that leaves the status as it is
ReleaseNot(session) == session

\* session.status === 'busy', session.status === 'closed'
IsBusy(session) == session.status = "busy"
IsClosed(session) == session.status = "closed"

\* what executeCommand does to a session it accepts
Accept(session, command) ==
    [session EXCEPT !.status = "busy", !.lastCommand = command,
                    !.outputBuffer = <<>>]

\* session.status = 'ready', on both ways out of the wait
Release(session) == [session EXCEPT !.status = "ready"]

\* context.timeout || this.config.defaultTimeout
TimeoutOr(timeout, defaultTimeout) ==
    IF timeout = 0 THEN defaultTimeout ELSE timeout

\* executeCommand once getOrCreateSession has resolved: the status checks
\* and, in the same step, busy / lastCommand / the timeout / the cleared
\* buffer
ExecAccept(c) ==
    /\ ~Returning
    /\ task[c].pc = "resolved"
    /\ LET o == task[c].obj
       IN  IF IsBusy(sess[o])
           THEN Step(sess, sessions, Ended(c, Thrown("SESSION_BUSY")), procs)
           ELSE IF IsClosed(sess[o])
           THEN Step(sess, sessions, Ended(c, Thrown("SESSION_CLOSED")), procs)
           ELSE Step([sess EXCEPT ![o] = Accept(sess[o], task[c].command)],
                     sessions,
                     [task EXCEPT ![c].pc = "write", ![c].startTime = now,
                                  ![c].timeout =
                                      TimeoutOr(task[c].timeout,
                                                config.defaultTimeout)],
                     procs)
    /\ UNCHANGED <<now, config, utils, tailer, nextObj, nextProc>>

\* ptyProcess.write(text): a line joins the input the shell has not read
\* yet; the interrupt empties it and is pending until the shell answers
Write(session, text) ==
    IF text = CtrlC
    THEN [session EXCEPT !.ptyInput = <<>>, !.ptyEchoed = 0,
                         !.ptyInterrupts = session.ptyInterrupts + 1,
                         !.interrupts = session.interrupts + 1]
    ELSE [session EXCEPT !.ptyInput = Append(session.ptyInput, text)]

\* One write of executeCommand. The first comes after `await sleep(100)`:
\* the markers are made from the clock. Each of the next three comes after
\* an `await sleep(50)`. After the fourth the wait for the end marker
\* starts, at the clock's time then. (startTime is used from the first
\* write on for the result's duration alone, which the model leaves out.)
ExecWrite(c) ==
    /\ ~MicrotaskPending
    /\ task[c].pc \in Writing
    /\ task[c].pc = "write" => now > task[c].startTime
    /\ LET n         == WriteIndex(task[c].pc)
           timestamp == IF n = 1 THEN now ELSE task[c].timestamp
           line      == CommandLines(task[c].command, timestamp)[n]
       IN  /\ sess' = [sess EXCEPT ![task[c].obj] = Write(sess[task[c].obj], line)]
           /\ task' = [task EXCEPT
                         ![c].timestamp = timestamp,
                         ![c].startTime = 0,
                         ![c].pc = WritePcs[n + 1],
                         ![c].startTimeWait = IF n = 4 THEN now ELSE 0]
    /\ UNCHANGED <<now, config, utils, tailer, sessions, nextObj, procs, nextProc>>

\* the wait loop sees the end marker in the buffer, within the timeout
ExecFound(c) ==
    /\ ~MicrotaskPending
    /\ task[c].pc = "poll"
    /\ now - task[c].startTimeWait < task[c].timeout
    /\ Includes(sess[task[c].obj].outputBuffer, EndMarker(task[c].timestamp))
    /\ task' = [task EXCEPT ![c].pc = "found"]
    /\ UNCHANGED <<now, config, utils, tailer, sessions, sess, nextObj, procs, nextProc>>

\* the wait loop ends with the timeout elapsed (!foundEnd): the session is
\* ready again and the result says timedOut
ExecTimeout(c) ==
    /\ ~MicrotaskPending
    /\ task[c].pc = "poll"
    /\ ~(now - task[c].startTimeWait < task[c].timeout)
    /\ Step([sess EXCEPT ![task[c].obj] =
                 [Release(sess[task[c].obj]) EXCEPT !.abandoned = TRUE]],
            sessions, Ended(c, TimeoutResult), procs)
    /\ UNCHANGED <<now, config, utils, tailer, nextObj, nextProc>>

\* after `await sleep(200)`: the session is ready again and the buffer parsed
ExecFinish(c) ==
    /\ ~MicrotaskPending
    /\ task[c].pc = "found"
    /\ LET res == ParseOutput(sess[task[c].obj].outputBuffer,
                              task[c].command, task[c].timestamp)
       IN  Step([sess EXCEPT ![task[c].obj] = Release(sess[task[c].obj])],
                sessions, Ended(c, res), procs)
    /\ UNCHANGED <<now, config, utils, tailer, nextObj, nextProc>>

\* The continuation of a call that ended: the caller takes the result (or the
\* error); of a background command, executeBackgroundCommand takes it.
Return(c) ==
    /\ task[c].pc = "done"
    /\ tailOp[c].op = "none"
    /\ Step(sess, sessions, [task EXCEPT ![c] = IdleTask],
            IF task[c].op = "bg"
            THEN [procs EXCEPT ![task[c].proc] =
                    BackgroundOutcome(procs[task[c].proc], task[c].res)]
            ELSE procs)
    /\ UNCHANGED <<now, config, utils, tailer, nextObj, nextProc>>

\* The continuation of a background command when
\* removeListener('data', outputListener) removes nothing: onData keeps its
\* listeners in an emitter of its own and hands back a disposable, which
\* executeBackgroundCommand drops. What removeListener does is the pty
\* library's matter; the specifications with this step leave it open.
ReturnListening(c) ==
    /\ task[c].pc = "done"
    /\ task[c].op = "bg"
    /\ tailOp[c].op = "none"
    /\ Step(sess, sessions, [task EXCEPT ![c] = IdleTask],
            [procs EXCEPT ![task[c].proc] =
                [BackgroundOutcome(procs[task[c].proc], task[c].res)
                    EXCEPT !.listening = TRUE]])
    /\ UNCHANGED <<now, config, utils, tailer, nextObj, nextProc>>

\* ------------------------------------------------------- output poller

\* startProcess(sessionId, command, {timeout, maxBufferSize}), with the part
\* of executeBackgroundCommand and of executeCommand that runs before the
\* first await. Of an unknown session it throws and changes nothing.
StartProcess(c, id, command, timeout, maxBufferSize) ==
    /\ Free(c)
    /\ sessions[id] = 0
    /\ task' = Sync("startProcess", id, 0, Thrown("Error"))
    /\ UNCHANGED <<now, config, utils, tailer, sessions, sess, nextObj, procs, nextProc>>
  \/
    /\ Free(c)
    /\ nextProc <= MaxProcs
    /\ sessions[id] # 0
    /\ LET process == [NoProc EXCEPT !.present = TRUE, !.sessionId = id,
                                     !.obj = sessions[id], !.command = command,
                                     !.status = "running",
                                     !.maxBufferSize = maxBufferSize,
                                     !.listening = TRUE]
           t == [IdleTask EXCEPT !.op = "bg", !.sessionId = id,
                                 !.command = command, !.timeout = timeout,
                                 !.obj = sessions[id], !.proc = nextProc]
       IN  /\ procs' = [procs EXCEPT ![nextProc] = process]
           /\ task' = [task EXCEPT ![c] =
                         IF IsEmptyCommand(command)
                         THEN Done(t, Thrown("COMMAND_EMPTY"))
                         ELSE [t EXCEPT !.pc = "resolved"]]
    /\ nextProc' = nextProc + 1
    /\ UNCHANGED <<now, config, utils, tailer, sessions, sess, nextObj>>

\* poll(processId, incremental); of an unknown id it throws
\* a poll that pays no attention to the read position
PollWhole(process, incremental) ==
    [NoResult EXCEPT
       !.kind = "poll",
       !.output = process.outputBuffer,
       !.hasNewContent = Len(process.outputBuffer) > 0,
       !.isComplete = process.status \in {"completed", "error"},
       !.exitCode = process.exitCode,
       !.status = process.status,
       !.error = process.error]

\* the PollResult of poll(processId, incremental)
PollResult(process, incremental) ==
    [NoResult EXCEPT
       !.kind = "poll",
       !.output = IF incremental
                  THEN SliceFrom(process.outputBuffer, process.readPosition)
                  ELSE process.outputBuffer,
       !.hasNewContent =
            IF incremental
            THEN Len(SliceFrom(process.outputBuffer, process.readPosition)) > 0
            ELSE Len(process.outputBuffer) > process.readPosition,
       !.isComplete = process.status \in {"completed", "error"},
       !.exitCode = process.exitCode,
       !.status = process.status,
       !.error = process.error]

Poll(p, incremental) ==
    /\ ~Returning
    /\ IF procs[p].present
       THEN /\ procs' = [procs EXCEPT
                           ![p].readPosition = Len(procs[p].outputBuffer),
                           ![p].sincePoll = <<>>]
            /\ task' = [Sync("poll", procs[p].sessionId, p,
                              PollResult(procs[p], incremental))
                           EXCEPT ![0].incremental = incremental]
       ELSE /\ procs' = procs
            /\ task' = Sync("poll", 0, p, Thrown("Error"))
    /\ UNCHANGED <<now, config, utils, tailer, sessions, sess, nextObj, nextProc>>

\* the interrupts written to a session's pty so far
Interrupts(session) == session.interrupts

\* stopProcess(processId); of an unknown id it returns at once
StopProcess(p) ==
    /\ ~Returning
    /\ IF procs[p].present
       THEN /\ LET o == sessions[procs[p].sessionId]
               IN  IF o # 0
                   THEN /\ Interrupts(sess[o]) < MaxInterrupts
                        /\ sess' = [sess EXCEPT ![o] = Write(sess[o], CtrlC)]
                   ELSE UNCHANGED sess
            /\ procs' = [procs EXCEPT ![p].status = "stopped"]
            /\ task' = Sync("stopProcess", procs[p].sessionId, p, Void)
       ELSE /\ UNCHANGED <<sess, procs>>
            /\ task' = Sync("stopProcess", 0, p, Void)
    /\ UNCHANGED <<now, config, utils, tailer, sessions, nextObj, nextProc>>

\* cleanupCompleted()
\* a cleanup that takes every record
CleanableAll(process) == process.present

\* the records cleanupCompleted deletes
Cleanable(process) ==
    process.present /\ process.status \in {"completed", "error", "stopped"}

CleanupCompleted ==
    /\ ~Returning
    /\ procs' = [p \in Procs |->
                    IF Cleanable(procs[p])
                    THEN [procs[p] EXCEPT !.present = FALSE] ELSE procs[p]]
    /\ task' = Sync("cleanupCompleted", 0, 0,
                    [NoResult EXCEPT
                       !.kind = "count",
                       !.count = Cardinality({p \in Procs : Cleanable(procs[p])})])
    /\ UNCHANGED <<now, config, utils, tailer, sessions, sess, nextObj, nextProc>>

\* ----------------------------------------------------------- log tailer

\* the shell commands of the tailer: cat "file", tail -c +N "file",
\* tail -n N "file", and stat -c %s "file" ... || wc -c < "file"
CatCommand == <<"c", "a", "t">>
TailBytesCommand == <<"t", "a", "i", "l", " ", "-", "c">>
TailLinesCommand == <<"t", "a", "i", "l", " ", "-", "n">>
SizeCommand == <<"s", "t", "a", "t">>

\* a read command that starts at the first byte whatever the position
TailBytesFromStart(readPosition) == TailBytesCommand \o <<" ", "+", "1">>

\* parseInt's NaN: a number below every number that a text of ten
\* characters or fewer spells
NaN == 0 - 1000000000

\* String(n): Number.prototype.toString with the sign, "NaN" for NaN
NumberText(n) ==
    IF n = NaN THEN <<"N", "a", "N">>
    ELSE IF n < 0 THEN <<"-">> \o Decimal(0 - n)
    ELSE Decimal(n)

\* NaN + 1 is NaN
PlusOne(n) == IF n = NaN THEN NaN ELSE n + 1

\* `tail -c +${tailState.readPosition + 1}`
TailBytesFrom(readPosition) ==
    TailBytesCommand \o <<" ", "+">> \o NumberText(PlusOne(readPosition))

\* their timeouts, 10000 ms and 5000 ms, in the model's clock
LogTimeout == MaxTimeout
SizeTimeout == MaxTimeout

\* parseInt(text, 10) of a trimmed text: an optional sign, then the number
\* the digits that follow spell; NaN if no digit follows
LeadingDigits(text) ==
    SubSeq(text, 1, SetMax({n \in 0..Len(text) :
                              \A i \in 1..n : text[i] \in Digit}))
Signed(text) == text # <<>> /\ text[1] \in {"+", "-"}
Unsigned(text) == IF Signed(text) THEN Tail(text) ELSE text
\* a parse that finds no digits in any text
ParseSizeNaN(text) == NaN

ParseSize(text) ==
    LET trimmed == Trim(text)
        digits  == LeadingDigits(Unsigned(trimmed))
    IN  IF digits = <<>> THEN NaN
        ELSE IF trimmed[1] = "-" THEN 0 - ParseInt(digits)
        ELSE ParseInt(digits)

\* what a tailer operation gives back: the log entries, here the text whose
\* non-blank lines they are parsed from, or the id of the new tail
LogEntries(text) == [NoResult EXCEPT !.kind = "logs", !.output = text]
TailId == [NoResult EXCEPT !.kind = "id"]

\* the tailer calls sessionManager.executeCommand({sessionId, command,
\* timeout}) in call c: executeCommand up to its first await
tailExecute(c, id, command, timeout) ==
    getOrCreateSessionStart(c, "exec", id, command, timeout)

\* a tailer operation of call c ends with `res`
tailEnds(c, op, id, res) ==
    /\ task' = [task EXCEPT ![c] =
                  Done([IdleTask EXCEPT !.op = op, !.sessionId = id], res)]
    /\ tailOp' = [tailOp EXCEPT ![c] = NoTailOp]

\* tailState.status = 'error'; tailState.error = result.error || '...'
tailFailed(tail) == [tail EXCEPT !.status = "error", !.error = TRUE]

\* `return tailId`: startTailing gives the caller the id of the tail
tailReturned(tail) == [tail EXCEPT !.idReturned = TRUE]

\* startTailing(sessionId, filePath, {lines}) up to the first await of the
\* executeCommand in getFileSize; of an unknown session it throws
StartTailing(c, id, lines) ==
    /\ Free(c)
    /\ IF sessions[id] = 0
       THEN /\ tailEnds(c, "startTailing", id, Thrown("Error"))
            /\ UNCHANGED tails
       ELSE \E t \in Tails :
               /\ tails[t].status = "none"
               /\ \A u \in Tails : u < t => tails[u].status # "none"
               /\ tails' = [tails EXCEPT ![t] =
                              [NoTail EXCEPT !.present = TRUE, !.sessionId = id,
                                             !.status = "running"]]
               /\ tailOp' = [tailOp EXCEPT ![c] =
                               [NoTailOp EXCEPT !.op = "startTailing",
                                                !.tail = t, !.stage = 1,
                                                !.lines = lines]]
               /\ tailExecute(c, id, SizeCommand, SizeTimeout)
    /\ UNCHANGED <<now, config, utils, file, sessions, sess, nextObj, procs,
                   nextProc>>

\* getLogs(tailId) and getIncrementalLogs(tailId) up to the first await of
\* their executeCommand; of an unknown tail, or of a tail whose session is
\* not in the store, they throw
tailRead(c, op, t, command) ==
    /\ IF ~tails[t].present
       THEN tailEnds(c, op, 0, Thrown("Error"))
       ELSE IF sessions[tails[t].sessionId] = 0
       THEN tailEnds(c, op, tails[t].sessionId, Thrown("Error"))
       ELSE /\ tailOp' = [tailOp EXCEPT ![c] =
                            [NoTailOp EXCEPT !.op = op, !.tail = t, !.stage = 1,
                                             !.from = tails[t].readPosition]]
            /\ tailExecute(c, tails[t].sessionId, command, LogTimeout)
    /\ UNCHANGED <<now, config, utils, file, tails, sessions, sess, nextObj,
                   procs, nextProc>>

GetLogs(c, t) ==
    /\ Free(c)
    /\ tailRead(c, "getLogs", t, CatCommand)

GetIncrementalLogs(c, t) ==
    /\ Free(c)
    /\ tailRead(c, "getIncrementalLogs", t,
                TailBytesFrom(tails[t].readPosition))

\* The continuation of a tailer operation whose executeCommand ended. An
\* error thrown by executeCommand is not caught: the operation throws it.
\* getFileSize gives null for a result that is no success, and the size
\* otherwise.
TailContinue(c) ==
    /\ task[c].pc = "done"
    /\ tailOp[c].op # "none"
    /\ LET op  == tailOp[c]
           t   == op.tail
           id  == task[c].sessionId
           res == task[c].res
           sized == IF res.success
                    THEN [tails EXCEPT ![t].readPosition = ParseSize(res.output)]
                    ELSE tails
           failed == [tails EXCEPT ![t] = tailFailed(tails[t])]
       IN  IF res.kind = "error"
           THEN /\ tailEnds(c, op.op, id, res)
                /\ UNCHANGED tails
           ELSE IF op.op = "getLogs"
           THEN IF ~res.success
                THEN tails' = failed /\ tailEnds(c, op.op, id, LogEntries(<<>>))
                ELSE tails' = tails /\ tailEnds(c, op.op, id, LogEntries(res.output))
           ELSE IF op.op = "getIncrementalLogs" /\ op.stage = 1
           THEN IF ~res.success
                THEN tails' = failed /\ tailEnds(c, op.op, id, LogEntries(<<>>))
                ELSE /\ tails' = tails
                     /\ tailOp' = [tailOp EXCEPT ![c].stage = 2,
                                                 ![c].output = res.output]
                     /\ tailExecute(c, id, SizeCommand, SizeTimeout)
           ELSE IF op.op = "getIncrementalLogs"
           THEN tails' = sized /\ tailEnds(c, op.op, id, LogEntries(op.output))
           ELSE IF op.stage = 1
           THEN IF op.lines > 0
                THEN /\ tails' = sized
                     /\ tailOp' = [tailOp EXCEPT ![c].stage = 2]
                     /\ tailExecute(c, id, TailLinesCommand, LogTimeout)
                ELSE /\ tails' = [sized EXCEPT ![t] = tailReturned(sized[t])]
                     /\ tailEnds(c, op.op, id, TailId)
           ELSE /\ tails' = [tails EXCEPT ![t] =
                               tailReturned(IF res.success THEN tails[t]
                                            ELSE failed[t])]
                /\ tailEnds(c, op.op, id, TailId)
    /\ UNCHANGED <<now, config, utils, file, sessions, sess, nextObj, procs,
                   nextProc>>

\* stopTailing(tailId); of an unknown id it returns at once
StopTailing(t) ==
    /\ ~Returning
    /\ tails' = IF tails[t].present
                THEN [tails EXCEPT ![t].status = "stopped"] ELSE tails
    /\ task' = Sync("stopTailing",
                    IF tails[t].present THEN tails[t].sessionId ELSE 0, 0, Void)
    /\ UNCHANGED <<now, config, utils, tailOp, file, sessions, sess, nextObj,
                   procs, nextProc>>

\* the tails cleanupStopped deletes
StoppedTail(tail) == tail.present /\ tail.status \in {"stopped", "error"}

\* cleanupStopped(): an operation in flight keeps the LogTailState it has
\* looked up
CleanupStopped ==
    /\ ~Returning
    /\ tails' = [t \in Tails |->
                    IF StoppedTail(tails[t])
                    THEN [tails[t] EXCEPT !.present = FALSE] ELSE tails[t]]
    /\ task' = Sync("cleanupStopped", 0, 0,
                    [NoResult EXCEPT
                       !.kind = "count",
                       !.count = Cardinality({t \in Tails :
                                                StoppedTail(tails[t])})])
    /\ UNCHANGED <<now, config, utils, tailOp, file, sessions, sess, nextObj,
                   procs, nextProc>>

\* The log file, as far as the tailer can tell: `file` bytes of the lines
\* "a", "b", "c", "a", ..., each with its newline; it only grows, a line at
\* a time.
MaxFileSize == 4
FileByte(i) ==
    IF i % 2 = 0 THEN "\n" ELSE <<"a", "b", "c">>[((i \div 2) % 3) + 1]
FileBytes(from, to) == [i \in 1..(to - from + 1) |-> FileByte(from + i - 1)]

FileGrows ==
    /\ ~MicrotaskPending
    /\ file + 2 <= MaxFileSize
    /\ file' = file + 2
    /\ UNCHANGED <<now, config, utils, tails, tailOp, sessions, sess, nextObj, task,
                   procs, nextProc>>

\* what the shell prints for a line the tailer wrote: the size for the size
\* command, the file from byte N on for `tail -c +N`, tail's complaint for
\* `tail -c +NaN` (getIncrementalLogs does not redirect stderr), nothing
\* otherwise
IsTailCommand(line) ==
    /\ Len(line) > Len(TailBytesCommand) + 3
    /\ SubSeq(line, 1, Len(TailBytesCommand) + 2)
          = TailBytesCommand \o <<" ", "+">>
    /\ line[Len(line)] = "\n"
\* the argument of -c
TailBytesArg(line) == SubSeq(line, Len(TailBytesCommand) + 2, Len(line) - 1)
IsTailBytes(line) ==
    /\ IsTailCommand(line)
    /\ \A i \in (Len(TailBytesCommand) + 3)..(Len(line) - 1) : line[i] \in Digit
TailBytesOffset(line) ==
    ParseInt(SubSeq(line, Len(TailBytesCommand) + 3, Len(line) - 1))
\* "tail: invalid number of bytes: '+NaN'"
TailComplaint(arg) ==
    <<"t", "a", "i", "l", ":", " ", "i", "n", "v", "a", "l", "i", "d", " ",
      "n", "u", "m", "b", "e", "r", " ", "o", "f", " ",
      "b", "y", "t", "e", "s", ":", " ", "'">> \o arg \o <<"'", "\n">>
FileOutput(line) ==
    IF line = SizeCommand \o <<"\n">> THEN Decimal(file) \o <<"\n">>
    ELSE IF IsTailBytes(line) THEN FileBytes(TailBytesOffset(line), file)
    ELSE IF IsTailCommand(line) THEN TailComplaint(TailBytesArg(line))
    ELSE <<>>
\* `tail -c +NaN` fails
FileStatus(line) ==
    IF line = SizeCommand \o <<"\n">> \/ IsTailBytes(line) THEN 0 ELSE 1

\* the shell of session object o runs the next line over the log file
ShellRunFile(o) ==
    /\ sess[o].ptyInput # <<>>
    /\ ShellRun(o, FileOutput(Head(sess[o].ptyInput)),
                FileStatus(Head(sess[o].ptyInput)))

\* ---------------------------------------------------- the specification

\* a command that is empty, one of white space, and one that is neither
Commands == { <<>>, <<" ">>, <<"l", "s">> }
\* the command of a background process
BackgroundCommands == { <<>>, <<"p", "s">> }
Timeouts == 1..MaxTimeout
\* what a command prints, and its exit status
Outputs == { <<"h", "i", "\n">> }
ExitCodes == {0}

Init == InitWith([maxSessions |-> MaxSessions, maxBufferSize |-> BufferSize,
          defaultTimeout |-> DefaultTimeout])

\* The session manager: sessions of two ids are created and closed and
\* their ptys exit, while commands are sent to the first.
Next ==
    \/ Tick
    \/ \E o \in Objs, out \in Outputs, code \in ExitCodes : ShellRun(o, out, code)
    \/ \E o \in Objs : PtyExit(o)
    \/ \E c \in Tasks, id \in SessionIds : CreateSession(c, id)
    \/ \E c \in Tasks, ptyOk \in BOOLEAN : CreatePty(c, ptyOk)
    \/ \E c \in Tasks : CreateSettled(c)
    \/ \E id \in SessionIds, killThrows \in BOOLEAN : CloseSession(id, killThrows)
    \/ \E c \in Tasks, cmd \in Commands, t \in Timeouts :
          ExecuteCommand(c, 1, cmd, t)
    \/ \E c \in Tasks : ExecAccept(c)
    \/ \E c \in Tasks : ExecWrite(c)
    \/ \E c \in Tasks : ExecFound(c)
    \/ \E c \in Tasks : ExecTimeout(c)
    \/ \E c \in Tasks : ExecFinish(c)
    \/ \E c \in Calls : Return(c)

Spec == Init /\ [][Next]_vars

\* One caller and one session, and a shell whose commands print with or
\* without a final newline, with colour, or nothing, and exit with 0 or not.
ShellCommands == { <<"l", "s">>, <<"e", "c", "h", "o", " ", "h", "i">> }
ShellOutputs ==
    { <<>>, <<"h", "i", "\n">>, <<"h", "i">>, <<"a", "\n", "b", "\n">>,
      <<ESC, "[", "1", "m", "h", "i", ESC, "[", "0", "m", "\r", "\n">> }
ShellExitCodes == {0, 1, 12}
\* a timeout of 0 is no timeout of the caller's: the default is taken
ShellTimeouts == 0..MaxTimeout

NextShell ==
    \/ Tick
    \/ \E o \in Objs, out \in ShellOutputs, code \in ShellExitCodes :
          ShellRun(o, out, code)
    \/ \E cmd \in ShellCommands, t \in ShellTimeouts :
          ExecuteCommand(1, 1, cmd, t)
    \/ \E c \in Tasks : CreatePty(c, TRUE)
    \/ \E c \in Tasks : CreateSettled(c)
    \/ \E c \in Tasks : ExecAccept(c)
    \/ \E c \in Tasks : ExecWrite(c)
    \/ \E c \in Tasks : ExecFound(c)
    \/ \E c \in Tasks : ExecTimeout(c)
    \/ \E c \in Tasks : ExecFinish(c)
    \/ \E c \in Calls : Return(c)

InitShell == InitWith([maxSessions |-> MaxSessions, maxBufferSize |-> ShellBufferSize,
          defaultTimeout |-> DefaultTimeout])

SpecShell == InitShell /\ [][NextShell]_vars

\* The same over a terminal that echoes what is written to it, as a pty does
\* unless its echo was turned off, with a capture buffer that holds all of a
\* command's transcript or only the end of it.
EchoBufferSize == 20
EchoBufferSizes == {EchoBufferSize, 2 * ShellBufferSize}
EchoCommands == { <<"l", "s">> }
\* what `echo "${_}END${_#===START}"` prints when it is the command of the
\* call with this timestamp: the shell's $_ is the start marker then, the
\* last argument of the line before
MarkersRunTogether(timestamp) ==
    StartMarker(timestamp)
        \o SubSeq(EndMarker(timestamp), Len(Eq3) + 1, Len(EndMarker(timestamp)))
        \o <<"\n">>
EchoOutputs == { <<>>, <<"h", "i", "\n">>, MarkersRunTogether(1) }
EchoExitCodes == {0, 12}

NextEcho ==
    \/ Tick
    \/ \E o \in Objs : PtyEcho(o)
    \/ \E o \in Objs, out \in EchoOutputs, code \in EchoExitCodes :
          ShellRunEchoed(o, out, code)
    \/ \E cmd \in EchoCommands, t \in Timeouts :
          ExecuteCommand(1, 1, cmd, t)
    \/ \E c \in Tasks : CreatePty(c, TRUE)
    \/ \E c \in Tasks : CreateSettled(c)
    \/ \E c \in Tasks : ExecAccept(c)
    \/ \E c \in Tasks : ExecWrite(c)
    \/ \E c \in Tasks : ExecFound(c)
    \/ \E c \in Tasks : ExecTimeout(c)
    \/ \E c \in Tasks : ExecFinish(c)
    \/ \E c \in Calls : Return(c)

InitEcho ==
    \E size \in EchoBufferSizes :
        InitWith([maxSessions |-> MaxSessions, maxBufferSize |-> size,
                  defaultTimeout |-> DefaultTimeout])

SpecEcho == InitEcho /\ [][NextEcho]_vars

\* An echoing terminal, a buffer that holds a whole transcript, and time for
\* a second command after the first timed out.
AbandonOutputs == { <<"h", "i", "\n">> }
AbandonExitCodes == {0}

NextAbandon ==
    \/ LateTick
    \/ \E o \in Objs : PtyEcho(o)
    \/ \E o \in Objs, out \in AbandonOutputs, code \in AbandonExitCodes :
          ShellRunEchoed(o, out, code)
    \/ \E cmd \in EchoCommands, t \in Timeouts :
          ExecuteCommand(1, 1, cmd, t)
    \/ \E c \in Tasks : CreatePty(c, TRUE)
    \/ \E c \in Tasks : CreateSettled(c)
    \/ \E c \in Tasks : ExecAccept(c)
    \/ \E c \in Tasks : ExecWrite(c)
    \/ \E c \in Tasks : ExecFound(c)
    \/ \E c \in Tasks : ExecTimeout(c)
    \/ \E c \in Tasks : ExecFinish(c)
    \/ \E c \in Calls : Return(c)

InitAbandon ==
    InitWith([maxSessions |-> MaxSessions, maxBufferSize |-> 2 * ShellBufferSize,
              defaultTimeout |-> DefaultTimeout])

SpecAbandon == InitAbandon /\ [][NextAbandon]_vars

\* The output poller over one session, whose buffer is small, or of size 0.
\* The session is created once and stays.
SessionBufferSizes == {0, SmallBufferSize}
ProcBufferSizes == {0, ProcBufferSize}

InitPoller ==
    \E size \in SessionBufferSizes :
        InitWith([maxSessions |-> MaxSessions, maxBufferSize |-> size,
                  defaultTimeout |-> DefaultTimeout])

\* a background command that succeeds and one that fails
PollerExitCodes == {0, 1}

NextPoller ==
    \/ Tick
    \/ \E o \in Objs, out \in Outputs, code \in PollerExitCodes :
          ShellRun(o, out, code)
    \/ CreateSession(1, 1)
    \/ \E c \in Tasks : CreatePty(c, TRUE)
    \/ \E c \in Tasks : CreateSettled(c)
    \/ \E c \in Tasks, cmd \in BackgroundCommands, t \in Timeouts,
          size \in ProcBufferSizes : StartProcess(c, 1, cmd, t, size)
    \/ \E c \in Tasks : ExecAccept(c)
    \/ \E c \in Tasks : ExecWrite(c)
    \/ \E c \in Tasks : ExecFound(c)
    \/ \E c \in Tasks : ExecTimeout(c)
    \/ \E c \in Tasks : ExecFinish(c)
    \/ \E c \in Calls : Return(c)
    \/ \E p \in Procs, incremental \in BOOLEAN : Poll(p, incremental)
    \/ \E p \in Procs : StopProcess(p)
    \/ \E o \in Objs, prints \in InterruptPrints(MaxInterrupts) :
          ShellInterrupted(o, prints)
    \/ CleanupCompleted

SpecPoller == InitPoller /\ [][NextPoller]_vars

\* Background commands on one session, with both outcomes of removeListener.
NextListener ==
    \/ Tick
    \/ \E o \in Objs, out \in Outputs, code \in PollerExitCodes :
          ShellRun(o, out, code)
    \/ \E c \in Tasks : CreateSession(c, 1)
    \/ \E c \in Tasks : CreatePty(c, TRUE)
    \/ \E c \in Tasks : CreateSettled(c)
    \/ \E c \in Tasks, cmd \in BackgroundCommands, t \in Timeouts :
          StartProcess(c, 1, cmd, t, ProcBufferSize)
    \/ \E c \in Tasks : ExecAccept(c)
    \/ \E c \in Tasks : ExecWrite(c)
    \/ \E c \in Tasks : ExecFound(c)
    \/ \E c \in Tasks : ExecTimeout(c)
    \/ \E c \in Tasks : ExecFinish(c)
    \/ \E c \in Calls : Return(c)
    \/ \E c \in Tasks : ReturnListening(c)

SpecListener == Init /\ [][NextListener]_vars

\* The session store alone, with room for one session more than in Spec:
\* sessions are created, closed, and their ptys exit; no command runs.
InitStore ==
    InitWith([maxSessions |-> MaxSessions + 1, maxBufferSize |-> BufferSize,
          defaultTimeout |-> DefaultTimeout])

NextStore ==
    \/ \E o \in Objs : PtyExit(o)
    \/ \E c \in Tasks, id \in SessionIds : CreateSession(c, id)
    \/ \E c \in Tasks, ptyOk \in BOOLEAN : CreatePty(c, ptyOk)
    \/ \E c \in Tasks : CreateSettled(c)
    \/ \E id \in SessionIds, killThrows \in BOOLEAN : CloseSession(id, killThrows)
    \/ \E c \in Calls : Return(c)

SpecStore == InitStore /\ [][NextStore]_vars

\* Background commands next to commands of a caller, on one session: the
\* session may be busy when the background command starts, the command may
\* fail, time out, or lose its pty.
NextBackground ==
    \/ Tick
    \/ \E o \in Objs, out \in Outputs, code \in PollerExitCodes :
          ShellRun(o, out, code)
    \/ \E o \in Objs : PtyExit(o)
    \/ CreateSession(1, 1)
    \/ \E c \in Tasks : CreatePty(c, TRUE)
    \/ \E c \in Tasks : CreateSettled(c)
    \/ \E c \in Tasks, t \in Timeouts : ExecuteCommand(c, 1, <<"l", "s">>, t)
    \/ \E c \in Tasks, cmd \in BackgroundCommands, t \in Timeouts :
          StartProcess(c, 1, cmd, t, ProcBufferSize)
    \/ \E c \in Tasks : ExecAccept(c)
    \/ \E c \in Tasks : ExecWrite(c)
    \/ \E c \in Tasks : ExecFound(c)
    \/ \E c \in Tasks : ExecTimeout(c)
    \/ \E c \in Tasks : ExecFinish(c)
    \/ \E c \in Calls : Return(c)

SpecBackground == Init /\ [][NextBackground]_vars

\* The log tailer over one session: tails are started, read, stopped and
\* cleaned up while the session is created (by the first call) and closed;
\* the file's size is the number the shell prints.
TailOutputs == { <<"7", "\n">> }
TailLines == {0, 1}

NextTailer ==
    \/ Tick
    \/ \E o \in Objs, out \in TailOutputs, code \in PollerExitCodes :
          ShellRun(o, out, code)
    \/ CreateSession(1, 1)
    \/ \E c \in Tasks : CreatePty(c, TRUE)
    \/ \E c \in Tasks : CreateSettled(c)
    \/ CloseSession(1, FALSE)
    \/ \E c \in Tasks, lines \in TailLines : StartTailing(c, 1, lines)
    \/ \E c \in Tasks, t \in Tails : GetLogs(c, t)
    \/ \E c \in Tasks, t \in Tails : GetIncrementalLogs(c, t)
    \/ \E c \in Tasks : TailContinue(c)
    \/ \E t \in Tails : StopTailing(t)
    \/ CleanupStopped
    \/ \E c \in Tasks : ExecAccept(c)
    \/ \E c \in Tasks : ExecWrite(c)
    \/ \E c \in Tasks : ExecFound(c)
    \/ \E c \in Tasks : ExecTimeout(c)
    \/ \E c \in Tasks : ExecFinish(c)
    \/ \E c \in Calls : Return(c)

SpecTailer == Init /\ [][NextTailer]_vars

\* A log tail over a file that grows while it is read. The session is
\* created once, and the caller reads a tail by the id that startTailing
\* returned: not before it returned, and not when it threw.
TailIdKnown(t) == tails[t].idReturned

NextLog ==
    \/ LogTick
    \/ FileGrows
    \/ \E o \in Objs : ShellRunFile(o)
    \/ CreateSession(1, 1)
    \/ \E c \in Tasks : CreatePty(c, TRUE)
    \/ \E c \in Tasks : CreateSettled(c)
    \/ \E c \in Tasks : StartTailing(c, 1, 0)
    \/ \E c \in Tasks, t \in Tails :
          TailIdKnown(t) /\ GetIncrementalLogs(c, t)
    \/ \E c \in Tasks : TailContinue(c)
    \/ \E c \in Tasks : ExecAccept(c)
    \/ \E c \in Tasks : ExecWrite(c)
    \/ \E c \in Tasks : ExecFound(c)
    \/ \E c \in Tasks : ExecTimeout(c)
    \/ \E c \in Tasks : ExecFinish(c)
    \/ \E c \in Calls : Return(c)

\* the session's buffer holds the transcript of any one read
SpecLog == InitShell /\ [][NextLog]_vars

\* The two kinds of read cursor side by side: a background process with a
\* small buffer, polled, and a log tail over the growing file, read
\* incrementally, on one session.
NextCursor ==
    \/ LogTick
    \/ FileGrows
    \/ \E o \in Objs : ShellRunFile(o)
    \/ CreateSession(1, 1)
    \/ \E c \in Tasks : CreatePty(c, TRUE)
    \/ \E c \in Tasks : CreateSettled(c)
    \/ \E c \in Tasks, t \in Timeouts :
          StartProcess(c, 1, <<"p", "s">>, t, ProcBufferSize)
    \/ \E p \in Procs : Poll(p, TRUE)
    \/ \E c \in Tasks : StartTailing(c, 1, 0)
    \/ \E c \in Tasks, t \in Tails :
          TailIdKnown(t) /\ GetIncrementalLogs(c, t)
    \/ \E c \in Tasks : TailContinue(c)
    \/ \E c \in Tasks : ExecAccept(c)
    \/ \E c \in Tasks : ExecWrite(c)
    \/ \E c \in Tasks : ExecFound(c)
    \/ \E c \in Tasks : ExecTimeout(c)
    \/ \E c \in Tasks : ExecFinish(c)
    \/ \E c \in Calls : Return(c)

\* a capture buffer that holds the transcript of a size query, 39
\* characters, and one that does not
CursorBufferSizes == {BufferSize - 2, BufferSize}

InitCursor ==
    \E size \in CursorBufferSizes :
        InitWith([maxSessions |-> MaxSessions, maxBufferSize |-> size,
                  defaultTimeout |-> DefaultTimeout])

SpecCursor == InitCursor /\ [][NextCursor]_vars

\* ------------------------------------------------------------ the claims

\* an executeCommand call between acceptance (status set to busy) and return
InFlight(c) == task[c].pc \in Writing \cup {"poll", "found"}

\* C1: for every session id at most one command is in flight: no two
\* executeCommand calls for the same session id are between acceptance and
\* return at the same time, whatever the interleaving, creation on demand
\* included.
C1_OneCommandInFlight ==
    \A c, d \in Tasks :
        (c # d /\ InFlight(c) /\ InFlight(d))
            => task[c].sessionId # task[d].sessionId

\* C2: when an accepted executeCommand ends, by a parsed result, a fallback
\* result or a timeout result, the status of its session is ready.
C2_ReadyAfterCommand ==
    [][\A c \in Tasks :
          (InFlight(c) /\ task'[c].pc = "done")
              => /\ task'[c].res.kind = "result"
                 /\ sess'[task[c].obj].status = "ready"]_vars

C2_Witness ==
    \E c \in Tasks :
        /\ task[c].pc = "done" /\ task[c].op = "exec"
        /\ task[c].res.kind = "result" /\ ~task[c].res.timedOut
        /\ task[c].res.output = <<"h", "i">>
        /\ sess[task[c].obj].status = "ready"

\* C3: executeCommand on a session whose status is busy fails with
\* SESSION_BUSY and changes nothing: status, buffer and lastCommand of the
\* session stay as they are, nothing is written to its pty, and the store is
\* as before.
C3_BusyRejected ==
    [][\A c \in Tasks :
          (task[c].pc = "resolved" /\ task'[c].pc # "resolved"
              /\ sess[task[c].obj].status = "busy")
              => /\ task'[c].pc = "done"
                 /\ task'[c].res = Thrown("SESSION_BUSY")
                 /\ sess' = sess
                 /\ sessions' = sessions]_vars

C3_Witness ==
    \E c, d \in Tasks :
        /\ task[c].pc = "done" /\ task[c].res = Thrown("SESSION_BUSY")
        /\ InFlight(d) /\ task[d].obj = task[c].obj
        /\ sess[task[d].obj].status = "busy"
        /\ sess[task[d].obj].lastCommand = task[d].command

\* C4: an executeCommand addressed to a session that has been closed, by
\* closeSession or by the exit of its pty, fails with SESSION_CLOSED: its
\* command is never accepted.
C4_ClosedRejected ==
    \A c \in Tasks :
        (task[c].op = "exec" /\ task[c].toClosed)
            => ~InFlight(c)

\* the command is white space alone, or empty
Blank(command) == \A i \in 1..Len(command) : command[i] \in Space

\* C5: executeCommand with an empty or white-space command fails with
\* COMMAND_EMPTY and changes nothing: no session is created, and the sessions
\* there are keep buffer, status and lastCommand.
C5_EmptyRejected ==
    [][\A c \in Tasks :
          (task[c].pc = "idle" /\ task'[c].op = "exec" /\ Blank(task'[c].command))
              => /\ task'[c].pc = "done"
                 /\ task'[c].res = Thrown("COMMAND_EMPTY")
                 /\ sess' = sess
                 /\ sessions' = sessions
                 /\ nextObj' = nextObj]_vars

C5_Witness ==
    \E c \in Tasks :
        /\ task[c].pc = "done" /\ task[c].op = "exec"
        /\ task[c].command = <<" ">>
        /\ task[c].res = Thrown("COMMAND_EMPTY")
        /\ sessions[task[c].sessionId] = 0

\* C6: when the wait for the end marker is over and the marker is not in the
\* buffer, executeCommand throws nothing: it returns output "", exitCode
\* null, success false, timedOut true, and the session is ready again,
\* whatever its shell has done.
C6_TimeoutResult ==
    [][\A c \in Tasks :
          (task[c].pc = "poll" /\ task'[c].pc # "poll"
              /\ ~Includes(sess[task[c].obj].outputBuffer,
                           EndMarker(task[c].timestamp)))
              => /\ task'[c].pc = "done"
                 /\ task'[c].res.kind = "result"
                 /\ task'[c].res.output = <<>>
                 /\ task'[c].res.exitCode = NullExit
                 /\ ~task'[c].res.success
                 /\ task'[c].res.timedOut
                 /\ sess'[task[c].obj].status = "ready"]_vars

C6_Witness ==
    \E c \in Tasks :
        /\ task[c].pc = "done" /\ task[c].op = "exec"
        /\ task[c].res.timedOut
        /\ sess[task[c].obj].status = "ready"
        /\ sess[task[c].obj].ptyInput # <<>>

\* what the shell emits for a command that prints O and exits with N: the
\* start marker, O, the exit marker with N after it, and the end marker
Transcript(timestamp, O, N) ==
    StartMarker(timestamp) \o <<"\n">> \o O
        \o ExitMarker(timestamp) \o Decimal(N) \o <<"\n">>
        \o EndMarker(timestamp) \o <<"\n">>

\* C7: when the shell has emitted the start marker, the output O of the
\* command, the exit marker with the decimal N after it and the end marker,
\* executeCommand returns O cleaned as output, N as exitCode, success iff
\* N = 0, and timedOut false.
C7_TranscriptParsed ==
    [][\A c \in Tasks :
          (task[c].pc = "found" /\ task'[c].pc = "done")
              => \A O \in ShellOutputs, N \in ShellExitCodes :
                    sess[task[c].obj].outputBuffer
                            = Transcript(task[c].timestamp, O, N)
                        => /\ task'[c].res.kind = "result"
                           /\ task'[c].res.output =
                                 CleanResult(O, task[c].command,
                                             Markers(task[c].timestamp))
                           /\ task'[c].res.exitCode = N
                           /\ task'[c].res.success = (N = 0)
                           /\ ~task'[c].res.timedOut]_vars

\* the same of the outputs that end with a newline, or are empty
C7_WholeLinesParsed ==
    [][\A c \in Tasks :
          (task[c].pc = "found" /\ task'[c].pc = "done")
              => \A O \in ShellOutputs, N \in ShellExitCodes :
                    (/\ sess[task[c].obj].outputBuffer
                            = Transcript(task[c].timestamp, O, N)
                     /\ (O = <<>> \/ O[Len(O)] = "\n"))
                        => /\ task'[c].res.kind = "result"
                           /\ task'[c].res.output =
                                 CleanResult(O, task[c].command,
                                             Markers(task[c].timestamp))
                           /\ task'[c].res.exitCode = N
                           /\ task'[c].res.success = (N = 0)
                           /\ ~task'[c].res.timedOut]_vars

\* the spec's own example: `echo hi` prints hi and exits with 0
C7_Witness ==
    \E c \in Tasks :
        /\ task[c].pc = "done"
        /\ task[c].command = <<"e", "c", "h", "o", " ", "h", "i">>
        /\ sess[task[c].obj].outputBuffer
              = Transcript(task[c].timestamp, <<"h", "i", "\n">>, 0)
        /\ task[c].res.output = <<"h", "i">>
        /\ task[c].res.exitCode = 0 /\ task[c].res.success

\* the last n characters of s
Suffix(s, n) == SubSeq(s, Len(s) - n + 1, Len(s))
\* a buffer of at most max characters after an append: the most recent ones
KeptOf(all, max) == IF Len(all) > max THEN Suffix(all, max) ELSE all
\* the shell of session object o reads a line in this step
ShellReads(o) ==
    /\ sess[o].pty = "alive" /\ sess'[o].pty = "alive"
    /\ sess[o].ptyInput # <<>>
    /\ sess'[o].ptyInput = Tail(sess[o].ptyInput)
    /\ sess'[o].interrupts = sess[o].interrupts
\* the shell of session object o answers its pending interrupts in this
\* step
ShellAnswers(o) ==
    /\ sess[o].pty = "alive" /\ sess'[o].pty = "alive"
    /\ sess[o].ptyInterrupts > 0
    /\ sess'[o].ptyInterrupts = 0
\* after this step the buffers of session object o and of the processes
\* that listen to its pty are the most recent part, no longer than their
\* maximum, of what they were with data appended
BuffersKeep(o, data) ==
    /\ Len(sess'[o].outputBuffer) <= sess[o].maxBufferSize
    /\ sess'[o].outputBuffer =
          KeptOf(sess[o].outputBuffer \o data, sess[o].maxBufferSize)
    /\ \A p \in Procs :
          (procs[p].listening /\ procs[p].obj = o)
              => /\ Len(procs'[p].outputBuffer) <= procs[p].maxBufferSize
                 /\ procs'[p].outputBuffer =
                      KeptOf(procs[p].outputBuffer \o data,
                             procs[p].maxBufferSize)

\* C8: after an append by the data callback of a pty, the buffer of the
\* session, and that of every background process that listens to the pty, is
\* no longer than its maximum: it is the most recent part, of that length at
\* most, of the old buffer with the data appended.
C8_BuffersBounded ==
    [][\A o \in Objs :
          /\ ShellReads(o)
                => \E out \in Outputs :
                     LET data == ShellPrints(Head(sess[o].ptyInput),
                                             sess[o].ptyStatus, out)
                     IN  data # <<>> => BuffersKeep(o, data)
          /\ ShellAnswers(o)
                => \E data \in InterruptPrints(sess[o].ptyInterrupts) :
                        BuffersKeep(o, data)]_vars

\* the same of the sessions whose maximum is not 0
C8_PositiveBounded ==
    [][\A o \in Objs :
          sess[o].maxBufferSize > 0
             => /\ ShellReads(o)
                   => \E out \in Outputs :
                        LET data == ShellPrints(Head(sess[o].ptyInput),
                                                sess[o].ptyStatus, out)
                        IN  data # <<>> => BuffersKeep(o, data)
                /\ ShellAnswers(o)
                   => \E data \in InterruptPrints(sess[o].ptyInterrupts) :
                        BuffersKeep(o, data)]_vars

\* a session buffer and a process buffer that are full after data was dropped
C8_Witness ==
    \E p \in Procs :
        /\ procs[p].present /\ procs[p].maxBufferSize > 0
        /\ Len(procs[p].outputBuffer) = procs[p].maxBufferSize
        /\ sess[procs[p].obj].maxBufferSize > 0
        /\ Len(sess[procs[p].obj].outputBuffer) = sess[procs[p].obj].maxBufferSize
        /\ procs[p].outputBuffer # sess[procs[p].obj].outputBuffer

\* C9: the read position of every background process is at least 0 and at
\* most the length of its buffer, in every reachable state.
C9_ReadPositionInBuffer ==
    \A p \in Procs :
        /\ 0 <= procs[p].readPosition
        /\ procs[p].readPosition <= Len(procs[p].outputBuffer)

\* a process that was polled when its buffer was full, and whose buffer then
\* lost a part of what had been read
C9_Witness ==
    \E p \in Procs :
        /\ procs[p].present
        /\ procs[p].maxBufferSize > 0
        /\ Len(procs[p].outputBuffer) = procs[p].maxBufferSize
        /\ 0 < procs[p].readPosition
        /\ procs[p].readPosition < Len(procs[p].outputBuffer)

\* C10: createSession is refused with MAX_SESSIONS_REACHED exactly when the
\* store holds maxSessions sessions or more; a refused call allocates no pty
\* and leaves the store as it is. A closeSession takes one session out of
\* the store, and a createSession that completes puts one in: after one
\* closeSession of a full store one further createSession is let in, and the
\* one after it is refused.
C10_Capacity ==
    [][/\ \A c \in Tasks :
            (task[c].pc = "idle" /\ task'[c].op = "create")
                => /\ (task'[c].res = Thrown("MAX_SESSIONS_REACHED"))
                        <=> (StoreSize >= config.maxSessions)
                   /\ (StoreSize >= config.maxSessions)
                        => /\ task'[c].pc = "done"
                           /\ sess' = sess
                           /\ sessions' = sessions
                           /\ nextObj' = nextObj
       /\ \A c \in Tasks :
            (task[c].op = "create" /\ task[c].pc = "settle" /\ task'[c].pc = "done")
                => /\ sessions'[task[c].sessionId] = task[c].obj
                   /\ StoreSize' <= StoreSize + 1
       /\ \A id \in SessionIds :
            (sessions[id] # 0 /\ sessions'[id] = 0)
                => StoreSize' = StoreSize - 1]_vars

C10_Witness ==
    \E c \in Tasks :
        /\ task[c].pc = "done" /\ task[c].op = "create"
        /\ task[c].res = Thrown("MAX_SESSIONS_REACHED")
        /\ StoreSize = config.maxSessions

\* a session of this id is live: it is stored, or a createSession call is
\* making it, and its pty runs
Stored(id) == sessions[id] # 0 /\ sess[sessions[id]].pty = "alive"
Initializing(id) ==
    \E c \in Tasks : /\ task[c].pc = "settle" /\ task[c].sessionId = id
                     /\ sess[task[c].obj].pty = "alive"
Live(id) == Stored(id) \/ Initializing(id)

\* call c is a createSession({id}) that starts in this step
CreateCalled(c, id) ==
    /\ task[c].pc = "idle" /\ task'[c].pc # "idle"
    /\ task'[c].op = "create" /\ task'[c].sessionId = id

\* C11: a createSession call with the id of a live session fails with
\* SESSION_ALREADY_EXISTS, allocates no pty, and leaves the sessions and the
\* store as they are.
C11_CollisionRejected ==
    [][\A c \in Tasks, id \in SessionIds :
          (Live(id) /\ CreateCalled(c, id))
              => /\ task'[c].pc = "done"
                 /\ task'[c].res = Thrown("SESSION_ALREADY_EXISTS")
                 /\ nextObj' = nextObj /\ sess' = sess
                 /\ sessions' = sessions]_vars

\* What holds of C11: when the id is in the store the call fails, allocates
\* no pty and changes nothing, and below capacity the error is
\* SESSION_ALREADY_EXISTS.
C11_StoredCollisionRejected ==
    [][\A c \in Tasks, id \in SessionIds :
          (Stored(id) /\ CreateCalled(c, id))
              => /\ task'[c].pc = "done"
                 /\ task'[c].res.kind = "error"
                 /\ ~AtCapacity
                      => task'[c].res = Thrown("SESSION_ALREADY_EXISTS")
                 /\ nextObj' = nextObj /\ sess' = sess
                 /\ sessions' = sessions]_vars

\* a createSession call failed with SESSION_ALREADY_EXISTS
C11_Witness ==
    \E c \in Tasks :
        /\ task[c].pc = "done" /\ task[c].op = "create"
        /\ task[c].res = Thrown("SESSION_ALREADY_EXISTS")
        /\ Stored(task[c].sessionId)

\* closeSession(id) is called in this step
CloseCalled(id) ==
    /\ task[0].pc = "idle" /\ task'[0].pc = "done"
    /\ task'[0].op = "close" /\ task'[0].sessionId = id

\* C12: closeSession(id) kills the pty of the session stored under id, sets
\* its status to closed and removes it from the store, and it returns without
\* error also when kill throws; of an id that is not in the store, which is
\* what a second call finds, it changes nothing.
C12_CloseSession ==
    [][\A id \in SessionIds :
          CloseCalled(id) =>
              LET o == sessions[id]
              IN  /\ task'[0].res = Void
                  /\ sessions'[id] = 0
                  /\ \A j \in SessionIds \ {id} : sessions'[j] = sessions[j]
                  /\ \A q \in Objs \ {o} : sess'[q] = sess[q]
                  /\ procs' = procs
                  /\ \A c \in Tasks : task'[c] = task[c]
                  /\ o # 0 =>
                        /\ sess'[o].status = "closed"
                        /\ task'[0].killThrew => sess'[o].pty = sess[o].pty
                        /\ ~task'[0].killThrew => sess'[o].pty # "alive"]_vars

\* closeSession returned after a kill that threw: the session is closed and
\* out of the store, and its pty still runs
C12_Witness ==
    /\ task[0].pc = "done" /\ task[0].op = "close" /\ task[0].killThrew
    /\ sessions[task[0].sessionId] = 0
    /\ \E o \in Objs : /\ sess[o].id = task[0].sessionId
                        /\ sess[o].status = "closed" /\ sess[o].pty = "alive"

\* the pty of session object o exits in this step
Exits(o) == sess[o].pty \in {"alive", "killed"} /\ sess'[o].pty = "exited"

\* C13: when the pty of a session exits while the session is ready or busy,
\* the session's status becomes closed and the session is no longer in the
\* store.
C13_ExitCloses ==
    [][\A o \in Objs :
          (Exits(o) /\ sess[o].status \in {"ready", "busy"})
              => /\ sess'[o].status = "closed"
                 /\ \A i \in SessionIds : sessions'[i] # o]_vars

\* the pty of a busy session has exited while its command is in flight: the
\* session is closed and out of the store
C13_Witness ==
    \E c \in Tasks :
        /\ task[c].pc \in Writing \cup {"poll"}
        /\ sess[task[c].obj].pty = "exited"
        /\ sess[task[c].obj].status = "closed"
        /\ sessions[task[c].sessionId] = 0

\* poll(p, incremental) of a known process is called in this step
PollCalled(p, incremental) ==
    /\ task[0].pc = "idle" /\ task'[0].pc = "done"
    /\ task'[0].op = "poll" /\ task'[0].proc = p
    /\ task'[0].incremental = incremental
    /\ task'[0].res.kind = "poll"

\* poll leaves the buffer as it is and moves readPosition to its end
PollAdvances(p) ==
    /\ procs'[p].outputBuffer = procs[p].outputBuffer
    /\ procs'[p].readPosition = Len(procs[p].outputBuffer)

\* C14 as stated: an incremental poll returns exactly what was appended to
\* the process's buffer since the previous poll and moves readPosition to the
\* buffer's end; when nothing was appended it returns an empty output and
\* hasNewContent false.
C14_PollExact ==
    [][\A p \in Procs :
          PollCalled(p, TRUE) =>
              /\ task'[0].res.output = procs[p].sincePoll
              /\ task'[0].res.hasNewContent = (procs[p].sincePoll # <<>>)
              /\ PollAdvances(p)]_vars

\* C14, amended: an incremental poll returns what was appended to the
\* process's buffer since the previous poll and is still in the buffer, which
\* is all of it when it is no longer than maxBufferSize and its last
\* maxBufferSize characters otherwise; hasNewContent tells whether the output
\* is non-empty; readPosition moves to the buffer's end. When nothing was
\* appended the output is empty and hasNewContent false.
C14_PollIncremental ==
    [][\A p \in Procs :
          PollCalled(p, TRUE) =>
              /\ task'[0].res.output =
                    KeptOf(procs[p].sincePoll, procs[p].maxBufferSize)
              /\ task'[0].res.hasNewContent = (task'[0].res.output # <<>>)
              /\ procs[p].sincePoll = <<>> =>
                    task'[0].res.output = <<>> /\ ~task'[0].res.hasNewContent
              /\ PollAdvances(p)]_vars

\* an incremental poll returned, after an earlier poll, exactly what was
\* appended since: part of the buffer, not all of it
C14_Witness ==
    /\ task[0].pc = "done" /\ task[0].op = "poll" /\ task[0].incremental
    /\ task[0].res.kind = "poll"
    /\ task[0].res.output # <<>>
    /\ Len(task[0].res.output) < Len(procs[task[0].proc].outputBuffer)

\* stopProcess(p) is called in this step
StopCalled(p) ==
    /\ task[0].pc = "idle" /\ task'[0].pc = "done"
    /\ task'[0].op = "stopProcess" /\ task'[0].proc = p

\* C15: stopProcess returns without error and leaves the record stopped; of
\* a record that is stopped already, or of an unknown id, it changes nothing
\* and writes nothing to the pty.
C15_StopIdempotent ==
    [][\A p \in Procs :
          StopCalled(p) =>
              /\ task'[0].res = Void
              /\ procs[p].present => procs'[p].status = "stopped"
              /\ (~procs[p].present \/ procs[p].status = "stopped")
                    => procs' = procs /\ sess' = sess]_vars

\* What holds of C15: stopProcess returns without error, leaves a known
\* record stopped and nothing else of it changed, and of an unknown id it
\* changes nothing and writes nothing.
C15_StopMarks ==
    [][\A p \in Procs :
          StopCalled(p) =>
              /\ task'[0].res = Void
              /\ procs[p].present =>
                    procs' = [procs EXCEPT ![p].status = "stopped"]
              /\ ~procs[p].present => procs' = procs /\ sess' = sess]_vars

\* stopProcess has returned: the record is stopped and the shell of the
\* session has an interrupt to answer
C15_Witness ==
    /\ task[0].pc = "done" /\ task[0].op = "stopProcess"
    /\ procs[task[0].proc].present
    /\ procs[task[0].proc].status = "stopped"
    /\ \E o \in Objs : sess[o].ptyInterrupts > 0

\* the statuses a background process ends in
TerminalStatus == {"completed", "error", "stopped"}

\* C16: the status of a background process changes only from running to
\* completed, error or stopped; once it is one of these it never changes.
C16_StatusTerminal ==
    [][\A p \in Procs :
          (procs[p].present /\ procs'[p].present
             /\ procs'[p].status # procs[p].status)
              => /\ procs[p].status = "running"
                 /\ procs'[p].status \in TerminalStatus]_vars

\* What holds of C16: a record's status is running, completed, error or
\* stopped, and it never becomes running again.
C16_NeverRunningAgain ==
    [][\A p \in Procs :
          (procs[p].present /\ procs'[p].present)
              => /\ procs'[p].status \in TerminalStatus \cup {"running"}
                 /\ procs'[p].status = "running"
                      => procs[p].status = "running"]_vars

\* a process was stopped while its command is still in flight
C16_Witness ==
    \E c \in Tasks :
        /\ task[c].op = "bg" /\ task[c].pc \in Writing \cup {"poll", "found"}
        /\ procs[task[c].proc].present
        /\ procs[task[c].proc].status = "stopped"

\* the wrapped executeCommand of background call c failed: it threw, timed
\* out, or the command's exit status is not 0
Failed(res) == res.kind = "error" \/ (res.kind = "result" /\ ~res.success)

\* executeBackgroundCommand takes the outcome of call c in this step
BackgroundEnds(c) ==
    /\ task[c].op = "bg" /\ task[c].pc = "done" /\ task'[c].pc = "idle"
    /\ procs[task[c].proc].present

\* no caller is handed anything in this step
NothingRaised(c) == \A d \in Calls \ {c} : task'[d] = task[d]

\* C17 as stated: every failure of the wrapped command is recorded in the
\* record's status, which becomes error, and in its error field, and is
\* raised to no caller.
C17_FailureInErrorField ==
    [][\A c \in Tasks :
          (BackgroundEnds(c) /\ Failed(task[c].res))
              => /\ procs'[task[c].proc].status = "error"
                 /\ procs'[task[c].proc].error
                 /\ NothingRaised(c)]_vars

\* C17, amended: every failure of the wrapped command is recorded in the
\* record and raised to no caller: the status becomes error; the error field
\* is set when executeCommand threw (session busy, closed, not creatable,
\* empty command) or timed out, and for a non-zero exit status the record
\* holds the exit code and no error text.
C17_FailureRecorded ==
    [][\A c \in Tasks :
          (BackgroundEnds(c) /\ Failed(task[c].res))
              => LET res == task[c].res
                     process == procs'[task[c].proc]
                 IN  /\ process.status = "error"
                     /\ process.error = (res.kind = "error" \/ res.timedOut)
                     /\ res.kind = "result" => process.exitCode = res.exitCode
                     /\ NothingRaised(c)]_vars

\* startProcess on a busy session has returned; the wrapped command was
\* refused with SESSION_BUSY and the record is about to take it
C17_Witness ==
    \E c \in Tasks :
        /\ task[c].op = "bg" /\ task[c].pc = "done"
        /\ task[c].res = Thrown("SESSION_BUSY")
        /\ procs[task[c].proc].present
        /\ procs[task[c].proc].status = "running"

\* a background command has ended with a non-zero exit status: the record is
\* in status error with the exit code and without error text
C17_NonZeroExit ==
    \E p \in Procs :
        /\ procs[p].present /\ procs[p].status = "error"
        /\ procs[p].exitCode > 0 /\ ~procs[p].error

\* the operations of the log tailer that run shell commands
TailerOps == {"startTailing", "getLogs", "getIncrementalLogs"}

\* a shell command of the tailer operation in call c has ended, and the
\* operation continues in this step
TailCommandEnds(c) ==
    /\ task[c].pc = "done" /\ tailOp[c].op # "none"
    /\ task'[c] # task[c]

\* the tailer operation of call c throws in this step
TailThrows(c) ==
    /\ tailOp'[c].op = "none"
    /\ task'[c].pc = "done" /\ task'[c].res.kind = "error"

\* C18: when a shell command issued by startTailing, getLogs or
\* getIncrementalLogs fails (executeCommand throws, as for a busy session,
\* or its result is a timeout or a non-zero exit), the operation does not
\* throw and its LogTailState gets status error and an error text, so that
\* no record stays running after a failed operation.
C18_TailFailureCaptured ==
    [][\A c \in Tasks :
          (TailCommandEnds(c) /\ Failed(task[c].res))
              => /\ ~TailThrows(c)
                 /\ tails'[tailOp[c].tail].status = "error"
                 /\ tails'[tailOp[c].tail].error]_vars

\* What holds of C18: a command of the tailer that reads the log (cat,
\* tail -c, tail -n) and ends in a result that is no success is not thrown,
\* and the LogTailState gets status error and an error text.
C18_ReadFailureCaptured ==
    [][\A c \in Tasks :
          (/\ TailCommandEnds(c)
           /\ task[c].res.kind = "result" /\ ~task[c].res.success
           /\ task[c].command # SizeCommand)
              => /\ ~TailThrows(c)
                 /\ tails'[tailOp[c].tail].status = "error"
                 /\ tails'[tailOp[c].tail].error]_vars

\* a tailer operation has thrown SESSION_BUSY to its caller, and its
\* LogTailState is registered and running
C18_Witness ==
    \E c \in Tasks, t \in Tails :
        /\ task[c].pc = "done" /\ task[c].op \in TailerOps
        /\ tailOp[c].op = "none"
        /\ task[c].res = Thrown("SESSION_BUSY")
        /\ tails[t].present /\ tails[t].status = "running"

\* call c belongs to the poller or the tailer
DetachedCall(c) == task[c].op = "bg" \/ tailOp[c].op # "none"

\* C19: no operation of the poller or of the tailer creates a session again
\* that was closed. Each of them begins with its session in the store, so a
\* call of theirs that is in createSession is creating a session whose id was
\* closed since: there is no such call.
C19_NoRecreation ==
    \A c \in Tasks : DetachedCall(c) => task[c].pc \notin {"createPty", "settle"}

\* What holds of C19: a background command of the poller never creates a
\* session.
C19_PollerNoCreation ==
    \A c \in Tasks : task[c].op = "bg" => task[c].pc \notin {"createPty", "settle"}

\* the second command of startTailing is creating, with a new pty, a session
\* for the id of the session that was closed during the first
C19_Witness ==
    \E c \in Tasks :
        /\ tailOp[c].op = "startTailing" /\ tailOp[c].stage = 2
        /\ task[c].pc = "settle"
        /\ sess[task[c].obj].status = "initializing"
        /\ sess[task[c].obj].pty = "alive"
        /\ sessions[task[c].sessionId] = 0

\* cleanupCompleted() is called in this step
CleanupCalled ==
    /\ task[0].pc = "idle" /\ task'[0].pc = "done"
    /\ task'[0].op = "cleanupCompleted"

\* the records in the poller's map that have ended
EndedProcs ==
    {p \in Procs : procs[p].present /\ procs[p].status \in TerminalStatus}

\* C20: cleanupCompleted removes from the poller's map exactly the records
\* whose status is completed, error or stopped, returns how many they are
\* and leaves every other record as it is; no other step removes a record.
C20_CleanupExact ==
    [][/\ CleanupCalled =>
            /\ task'[0].res.kind = "count"
            /\ task'[0].res.count = Cardinality(EndedProcs)
            /\ \A p \in EndedProcs : ~procs'[p].present
            /\ \A p \in Procs \ EndedProcs : procs'[p] = procs[p]
       /\ ~CleanupCalled =>
            \A p \in Procs : procs[p].present => procs'[p].present]_vars

\* cleanupCompleted has returned 1: the record, which had ended, is out of
\* the map
C20_Witness ==
    /\ task[0].pc = "done" /\ task[0].op = "cleanupCompleted"
    /\ task[0].res.count = 1
    /\ \E p \in Procs : ~procs[p].present /\ procs[p].status \in TerminalStatus

\* cleanupCompleted has returned 0 and left a running record in the map
C20_RunningKept ==
    /\ task[0].pc = "done" /\ task[0].op = "cleanupCompleted"
    /\ task[0].res.count = 0
    /\ \E p \in Procs : procs[p].present /\ procs[p].status = "running"

\* executeCommand call c accepts its command in this step
Accepts(c) == task[c].pc = "resolved" /\ task'[c].pc = "write"

\* executeCommand call c makes its n-th write to the pty in this step
Writes(c, n) == task[c].pc = WritePcs[n] /\ task'[c].pc = WritePcs[n + 1]

\* echo '<marker>'<rest> and a newline, as text
EchoOf(marker, rest) ==
    <<"e", "c", "h", "o", " ", "'">> \o marker \o <<"'">> \o rest \o <<"\n">>

\* the four lines of a command with this timestamp, spelled out
FourLines(command, t) ==
    << EchoOf(Eq3 \o <<"S", "T", "A", "R", "T">> \o Decimal(t) \o Eq3, <<>>),
       command \o <<"\n">>,
       EchoOf(Eq3 \o <<"E", "X", "I", "T">> \o Decimal(t) \o Eq3, <<"$", "?">>),
       EchoOf(Eq3 \o <<"E", "N", "D">> \o Decimal(t) \o Eq3, <<>>) >>

\* C21: the step that accepts a command sets the session busy, records the
\* command and empties the capture buffer, and writes nothing to the pty;
\* the four writes that follow, each a step of its own, append to the pty's
\* input one line each, in this order: the echo of the start marker, the
\* command, the echo of the exit marker with $?, the echo of the end marker,
\* all three markers made from the one timestamp of the call, which is the
\* clock's time at the first write.
C21_AcceptThenFourLines ==
    [][\A c \in Tasks :
          LET o == task[c].obj
          IN  /\ Accepts(c) =>
                    /\ sess'[o].status = "busy"
                    /\ sess'[o].lastCommand = task[c].command
                    /\ sess'[o].outputBuffer = <<>>
                    /\ sess'[o].ptyInput = sess[o].ptyInput
              /\ Writes(c, 1) => task'[c].timestamp = now
              /\ \A n \in 1..4 :
                    Writes(c, n) =>
                       /\ n > 1 => task'[c].timestamp = task[c].timestamp
                       /\ sess'[o].ptyInput =
                             Append(sess[o].ptyInput,
                                    FourLines(task[c].command,
                                              task'[c].timestamp)[n])]_vars

\* the second command of a session is in its wait: the session is busy, its
\* lastCommand is the command and the pty's input holds the four lines, the
\* last of them the echo of the end marker
C21_Witness ==
    \E c \in Tasks :
        /\ task[c].pc = "poll" /\ task[c].timestamp > 1
        /\ sess[task[c].obj].status = "busy"
        /\ sess[task[c].obj].lastCommand = task[c].command
        /\ sess[task[c].obj].ptyInput = FourLines(task[c].command, task[c].timestamp)

\* ------------------------------------------------------------------ C22

\* call c's executeCommand parses the buffer in this step
Finishes(c) == task[c].pc = "found" /\ task'[c].pc = "done"

\* the 0-based indices at which marker occurs in buf
Occurrences(buf, marker) == {i \in 0..Len(buf) : OccursAt(buf, marker, i)}

\* the two markers both occur in buf and the last start marker is before the
\* last end marker
MarkersInOrder(buf, timestamp) ==
    /\ Occurrences(buf, StartMarker(timestamp)) # {}
    /\ Occurrences(buf, EndMarker(timestamp)) # {}
    /\ SetMax(Occurrences(buf, StartMarker(timestamp)))
           < SetMax(Occurrences(buf, EndMarker(timestamp)))

\* what lies strictly between the last start marker and the last end marker
Between(buf, timestamp) ==
    SubSeq(buf,
           SetMax(Occurrences(buf, StartMarker(timestamp)))
              + Len(StartMarker(timestamp)) + 1,
           SetMax(Occurrences(buf, EndMarker(timestamp))))

\* C22: once the end marker was found, the result is not timed out; if the
\* start or the end marker is missing from the buffer, or the last start
\* marker is not before the last end marker, it is the whole buffer cleaned,
\* with exitCode 0 and success; otherwise its output is the cleaned text
\* strictly between the last start marker and the last end marker.
C22_LastMarkersParsed ==
    [][\A c \in Tasks :
          Finishes(c) =>
             LET buf == sess[task[c].obj].outputBuffer
                 t   == task[c].timestamp
                 r   == task'[c].res
             IN  /\ r.kind = "result" /\ ~r.timedOut
                 /\ IF MarkersInOrder(buf, t)
                    THEN r.output = CleanResult(Between(buf, t), task[c].command,
                                                Markers(t))
                    ELSE /\ r.output = cleanOutput(buf)
                         /\ r.exitCode = 0
                         /\ r.success]_vars

\* the last start marker ends before the last end marker begins
MarkersApart(buf, timestamp) ==
    SetMax(Occurrences(buf, StartMarker(timestamp)))
        + Len(StartMarker(timestamp))
           <= SetMax(Occurrences(buf, EndMarker(timestamp)))

\* What holds of C22: the same, with the output between the markers taken
\* when the last start marker ends before the last end marker begins. (When
\* the end marker begins inside the start marker, substring is called with
\* its first index above its second and gives the characters between the
\* two the other way round: the end of the start marker.)
C22_ParsedWhenApart ==
    [][\A c \in Tasks :
          Finishes(c) =>
             LET buf == sess[task[c].obj].outputBuffer
                 t   == task[c].timestamp
                 r   == task'[c].res
             IN  /\ r.kind = "result" /\ ~r.timedOut
                 /\ (MarkersInOrder(buf, t) /\ MarkersApart(buf, t))
                       => r.output = CleanResult(Between(buf, t), task[c].command,
                                                 Markers(t))
                 /\ ~MarkersInOrder(buf, t)
                       => /\ r.output = cleanOutput(buf)
                          /\ r.exitCode = 0
                          /\ r.success]_vars

\* a command ended whose last start marker and last end marker share their
\* three equals signs; the output is those
C22_MarkersOverlap ==
    \E c \in Tasks :
        LET buf == sess[task[c].obj].outputBuffer
            t   == task[c].timestamp
        IN  /\ task[c].pc = "done" /\ task[c].res.kind = "result"
            /\ MarkersInOrder(buf, t) /\ ~MarkersApart(buf, t)
            /\ task[c].res.output = Eq3

\* a command ended with a buffer that holds its start marker and its end
\* marker twice each, in the echo of the written lines and in what the shell
\* printed, and with output between the last two
C22_Witness ==
    \E c \in Tasks :
        LET buf == sess[task[c].obj].outputBuffer
            t   == task[c].timestamp
        IN  /\ task[c].pc = "done" /\ task[c].res.kind = "result"
            /\ ~task[c].res.timedOut
            /\ MarkersInOrder(buf, t)
            /\ Cardinality(Occurrences(buf, StartMarker(t))) = 2
            /\ Cardinality(Occurrences(buf, EndMarker(t))) = 2
            /\ task[c].res.output = <<"h", "i">>

\* a command ended with a buffer that lost its start marker
C22_FallbackReached ==
    \E c \in Tasks :
        LET buf == sess[task[c].obj].outputBuffer
            t   == task[c].timestamp
        IN  /\ task[c].pc = "done" /\ task[c].res.kind = "result"
            /\ ~task[c].res.timedOut
            /\ ~MarkersInOrder(buf, t)

\* ------------------------------------------------------------------ C23

\* the digits of buf from 1-based position j on, up to the first character
\* that is not a digit
DigitsFrom(buf, j) ==
    LET ks == {k \in 0..(Len(buf) - j + 1) :
                 \A x \in j..(j + k - 1) : buf[x] \in Digit}
    IN  SubSeq(buf, j, j + SetMax(ks) - 1)

\* the occurrences of marker in buf that a digit follows
FollowedByDigit(buf, marker) ==
    {i \in Occurrences(buf, marker) :
        i + Len(marker) < Len(buf) /\ buf[i + Len(marker) + 1] \in Digit}

\* the decimal number after the exit marker in buf, 0 if no digits follow it
ExitCodeIn(buf, marker) ==
    IF FollowedByDigit(buf, marker) = {} THEN 0
    ELSE ParseInt(DigitsFrom(buf, SetMin(FollowedByDigit(buf, marker))
                                     + Len(marker) + 1))

\* C23: the exitCode of a parsed result (the end marker found, both markers
\* in the buffer and in order) is the decimal number that follows the
\* command's exit marker in the buffer, 0 if no digits follow it; success is
\* true exactly when exitCode is 0.
C23_ExitCodeParsed ==
    [][\A c \in Tasks :
          LET buf == sess[task[c].obj].outputBuffer
              t   == task[c].timestamp
              r   == task'[c].res
          IN  Finishes(c) /\ MarkersInOrder(buf, t) =>
                 /\ r.exitCode = ExitCodeIn(buf, ExitMarker(t))
                 /\ r.success <=> (r.exitCode = 0)]_vars

\* a command ended with a parsed result whose exitCode is 12, read after the
\* second of two exit markers in the buffer: the first is the echo of the
\* written line, which no digit follows
C23_Witness ==
    \E c \in Tasks :
        LET buf == sess[task[c].obj].outputBuffer
            t   == task[c].timestamp
        IN  /\ task[c].pc = "done" /\ task[c].res.kind = "result"
            /\ ~task[c].res.timedOut
            /\ MarkersInOrder(buf, t)
            /\ Cardinality(Occurrences(buf, ExitMarker(t))) = 2
            /\ task[c].res.exitCode = 12 /\ ~task[c].res.success

\* ------------------------------------------------------------------ C24

\* the shell of session object o has not read this written line yet
Unread(o, line) == \E i \in 1..Len(sess[o].ptyInput) : sess[o].ptyInput[i] = line

\* call c's executeCommand ended with a result that is not timed out
EndedInTime(c) ==
    /\ task[c].pc = "done" /\ task[c].timestamp > 0
    /\ task[c].res.kind = "result" /\ ~task[c].res.timedOut

\* C24: when executeCommand ends with a result that is not timed out, the
\* shell has run the end-marker echo, and so the user's command before it:
\* the terminal's echo of the written line does not end the wait.
C24_ReturnsAfterCommand ==
    \A c \in Tasks :
        EndedInTime(c) =>
           /\ ~Unread(task[c].obj, EchoLine(EndMarker(task[c].timestamp), <<>>))
           /\ ~Unread(task[c].obj, task[c].command \o <<"\n">>)

\* executeCommand ended in time with success while the shell has not read
\* the user's command: the buffer holds the end marker in the echo of the
\* written line alone
C24_Witness ==
    \E c \in Tasks :
        /\ EndedInTime(c) /\ task[c].res.success
        /\ Unread(task[c].obj, task[c].command \o <<"\n">>)
        /\ Cardinality(Occurrences(sess[task[c].obj].outputBuffer,
                                   EndMarker(task[c].timestamp))) = 1

\* ------------------------------------------------------------------ C25

\* call c's executeCommand gives up its wait in this step
TimesOut(c) == task[c].pc = "poll" /\ task'[c].pc = "done"

\* C25: a timeout writes nothing to the pty and does not kill it: the lines
\* of the command that the shell has not read stay where they are, to be run
\* later, while the session is ready again and the result says timedOut.
C25_TimeoutAbandons ==
    [][\A c \in Tasks :
          LET o == task[c].obj
          IN  TimesOut(c) =>
                 /\ task'[c].res.kind = "result" /\ task'[c].res.timedOut
                 /\ sess'[o].ptyInput = sess[o].ptyInput
                 /\ sess'[o].pty = sess[o].pty
                 /\ sess'[o].status = "ready"]_vars

\* After a timeout on the session a next command ended in time, and its
\* output holds what the abandoned command printed: that command ran after
\* the next one was accepted, and the shell has not read the next command's
\* line, so nothing of the output is its own.
C25_Witness ==
    \E c \in Tasks :
        /\ EndedInTime(c)
        /\ sess[task[c].obj].abandoned
        /\ Unread(task[c].obj, task[c].command \o <<"\n">>)
        /\ MarkersInOrder(sess[task[c].obj].outputBuffer, task[c].timestamp)
        /\ Includes(task[c].res.output, <<"h", "i">>)

\* ------------------------------------------------------------------ C26

\* the wrapped command of background process p has not finished
Wrapped(p) == \E c \in Tasks : task[c].op = "bg" /\ task[c].proc = p

\* C26: the listener of a background process is attached from startProcess
\* on, as long as its wrapped command has not finished, and is detached once
\* it has, whether with a result or an error: of finished background
\* commands no listener stays attached.
C26_ListenerDetached ==
    \A p \in Procs :
        procs[p].present => (procs[p].listening <=> Wrapped(p))

\* the wrapped command ended, its process is completed or in error, and its
\* listener is attached still
C26_Witness ==
    \E p \in Procs :
        /\ procs[p].present /\ ~Wrapped(p)
        /\ procs[p].status \in {"completed", "error"}
        /\ procs[p].listening

\* ------------------------------------------------------------------ C27

\* what an incremental poll of this process would deliver: the buffer from
\* the read position on
Undelivered(process) ==
    SubSeq(process.outputBuffer, process.readPosition + 1,
           Len(process.outputBuffer))

\* after this step every process that listens to the pty of session object
\* o has data appended to its buffer, trimmed from the head to the maximum,
\* and its read position lowered by what was trimmed, not below 0
CursorFollows(o, data) ==
    \A p \in Procs :
        (procs[p].listening /\ procs[p].obj = o)
           => LET appended == procs[p].outputBuffer \o data
                  max      == procs[p].maxBufferSize
                  excess   == Len(appended) - max
                  rp       == procs[p].readPosition
              IN  /\ excess > 0 =>
                     /\ procs'[p].outputBuffer = Suffix(appended, max)
                     /\ procs'[p].readPosition =
                           IF rp > excess THEN rp - excess ELSE 0
                  /\ excess <= 0 =>
                     /\ procs'[p].outputBuffer = appended
                     /\ procs'[p].readPosition = rp
                  /\ Undelivered(procs'[p]) =
                        KeptOf(Undelivered(procs[p]) \o data, max)

\* C27: when data arrives for a background process and the buffer with it is
\* longer than maxBufferSize, the excess is dropped from the head and
\* readPosition goes down by the excess, not below 0; otherwise the data is
\* appended and readPosition stays. Either way what the next incremental
\* poll delivers is what was undelivered before with the data appended, as
\* far as the buffer still holds it: nothing of it twice, nothing skipped.
C27_TrimShiftsCursor ==
    [][\A o \in Objs :
          /\ ShellReads(o)
                => \E out \in Outputs :
                     LET data == ShellPrints(Head(sess[o].ptyInput),
                                             sess[o].ptyStatus, out)
                     IN  data # <<>> => CursorFollows(o, data)
          /\ ShellAnswers(o)
                => \E data \in InterruptPrints(sess[o].ptyInterrupts) :
                        CursorFollows(o, data)]_vars

\* a process was polled with its buffer full, then data shorter than the
\* buffer arrived: the head of the buffer was dropped, the read position
\* went down with it and is above 0, and what is behind it is what arrived
\* since the poll
C27_Witness ==
    \E p \in Procs :
        /\ procs[p].present /\ procs[p].maxBufferSize > 0
        /\ Len(procs[p].outputBuffer) = procs[p].maxBufferSize
        /\ 0 < procs[p].readPosition
        /\ procs[p].sincePoll # <<>>
        /\ Undelivered(procs[p]) = procs[p].sincePoll

\* ------------------------------------------------------------------ C28

\* C28 as stated: the readPosition of a background process, and that of a
\* log tail, never decreases while the record exists.
C28_CursorForward ==
    [][/\ \A p \in Procs :
             (procs[p].present /\ procs'[p].present)
                => procs'[p].readPosition >= procs[p].readPosition
       /\ \A t \in Tails :
             (tails[t].present /\ tails'[t].present)
                => tails'[t].readPosition >= tails[t].readPosition]_vars

\* the data the shell of session object o prints in a step of SpecCursor in
\* which it reads a line
FileData(o) ==
    ShellPrints(Head(sess[o].ptyInput), sess[o].ptyStatus,
                FileOutput(Head(sess[o].ptyInput)))

\* the listener of process p drops the head of the buffer in this step and
\* takes the read position down with it, by the dropped amount, not below 0
TrimLowers(p) ==
    LET o      == procs[p].obj
        excess == Len(procs[p].outputBuffer \o FileData(o))
                     - procs[p].maxBufferSize
    IN  /\ procs[p].listening
        /\ ShellReads(o)
        /\ excess > 0
        /\ procs'[p].readPosition =
              IF procs[p].readPosition > excess
              THEN procs[p].readPosition - excess ELSE 0

\* a size query of the tailer operation of call c on tail t ends in this
\* step with a result that is a success
SizeQueryEnds(c, t) ==
    /\ TailCommandEnds(c) /\ tailOp[c].tail = t
    /\ task[c].command = SizeCommand
    /\ task[c].res.kind = "result" /\ task[c].res.success

\* the capture buffer of a session holds the whole transcript of a size
\* query
SizeTranscriptFits ==
    config.maxBufferSize
        >= Len(Transcript(MaxTime, Decimal(MaxFileSize) \o <<"\n">>, 0))

\* C28, amended: the readPosition of a background process goes down only
\* when its listener trims the buffer, and then by the trimmed amount, not
\* below 0, so that it stays at the same place in the stream; no poll lowers
\* it. The readPosition of a log tail changes only when a size query of
\* startTailing or getIncrementalLogs ends in a success, and becomes what
\* parseInt reads from that result's output, whatever it was before; over a
\* file that only grows, on a terminal without echo, it goes up whenever it
\* changes as long as the capture buffer holds a size query's transcript.
C28_CursorBackOnlyByTrim ==
    [][/\ \A p \in Procs :
             (procs[p].present /\ procs'[p].present)
                => \/ procs'[p].readPosition >= procs[p].readPosition
                   \/ TrimLowers(p)
       /\ \A t \in Tails :
             (/\ tails[t].present /\ tails'[t].present
              /\ tails'[t].readPosition # tails[t].readPosition)
                => /\ \E c \in Tasks :
                         /\ SizeQueryEnds(c, t)
                         /\ tails'[t].readPosition
                               = ParseSize(task[c].res.output)
                   /\ SizeTranscriptFits
                         => tails'[t].readPosition > tails[t].readPosition]_vars

\* a background process whose read position a trim has lowered to the middle
\* of its full buffer, and a log tail whose read position has advanced with
\* the file
C28_Witness ==
    /\ \E p \in Procs :
          /\ procs[p].present
          /\ Len(procs[p].outputBuffer) = procs[p].maxBufferSize
          /\ 0 < procs[p].readPosition
          /\ procs[p].readPosition < procs[p].maxBufferSize
    /\ \E t \in Tails : tails[t].present /\ tails[t].readPosition > 0

\* the tail half of C28 as stated: the readPosition of a log tail never
\* decreases
C28_TailCursorForward ==
    [][\A t \in Tails :
          (tails[t].present /\ tails'[t].present)
             => tails'[t].readPosition >= tails[t].readPosition]_vars

\* startTailing has returned the id of a running tail whose readPosition is
\* NaN: the transcript of its size query did not fit the capture buffer, and
\* the result's output was the buffer, not the size
C28_TailCursorLost ==
    \E t \in Tails :
        /\ tails[t].present /\ tails[t].idReturned
        /\ tails[t].status = "running"
        /\ tails[t].readPosition = NaN
        /\ ~SizeTranscriptFits

\* ------------------------------------------------------------------ C29

\* call c's getIncrementalLogs ends in this step, both its commands having
\* succeeded
IncrementalEnds(c) ==
    /\ tailOp[c].op = "getIncrementalLogs" /\ tailOp[c].stage = 2
    /\ task[c].pc = "done" /\ task[c].res.kind = "result"
    /\ task[c].res.success
    /\ tailOp'[c].op = "none"

\* the bytes of the file after the first `from` up to byte `to`, as the
\* result of a command gives them: without the final newline
FileLines(from, to) ==
    IF to <= from THEN <<>> ELSE FileBytes(from + 1, to - 1)

C29_Skips ==
    \E c \in Tasks :
        /\ task[c].pc = "done" /\ task[c].op = "getIncrementalLogs"
        /\ task[c].res.kind = "logs"
        /\ task[c].res.output = <<"a">>
        /\ \E t \in Tails : tails[t].present /\ tails[t].readPosition = 4

\* ------------------------------------------------------------------ C30

\* call c runs the `tail -n` snapshot of a startTailing
Snapshot(c) ==
    /\ tailOp[c].op = "startTailing" /\ tailOp[c].stage = 2
    /\ task[c].command = TailLinesCommand

\* C30: no step of the snapshot's execution sets the session busy or
\* changes its capture buffer.
C30_SnapshotOutsideProtocol ==
    [][\A c \in Tasks :
          (Snapshot(c) /\ task'[c] # task[c] /\ task[c].obj # 0)
             => /\ sess'[task[c].obj].status = sess[task[c].obj].status
                /\ sess'[task[c].obj].outputBuffer
                      = sess[task[c].obj].outputBuffer]_vars

\* the snapshot is in the wait loop of executeCommand: the session is busy
\* with it and the buffer holds its transcript
C30_Witness ==
    \E c \in Tasks :
        /\ Snapshot(c) /\ task[c].pc = "poll"
        /\ sess[task[c].obj].status = "busy"
        /\ sess[task[c].obj].lastCommand = TailLinesCommand
        /\ Includes(sess[task[c].obj].outputBuffer,
                    StartMarker(task[c].timestamp))

\* ------------------------------------------- the output cleaners, applied
\* The cleaners are pure: a text is drawn at the start, and each step applies
\* one of them to the current text. cleaner.input is the text the last step
\* was given and cleaner.fn the function it applied.

\* the optional argument `markers` left out
NoMarkers == [undefined |-> TRUE]

\* fullCleanOutput(output, command, markers?): cleanMarkers is applied
\* `if (markers)`
fullCleanOutput(output, command, markers) ==
    LET cleaned  == cleanOutput(output)
        unmarked == IF markers # NoMarkers
                    THEN cleanMarkers(cleaned, markers) ELSE cleaned
    IN  Trim(cleanPrompt(cleanCommandEcho(unmarked, command)))

MaxPieces == 4
MaxPlainPieces == 6

\* what the texts are made of: letters (the command's name among them),
\* white space, a prompt character, the rest of a private mode sequence, a
\* marker, a colour sequence and a carriage return
CleanerPieces ==
    {<<"a">>, <<"b">>, <<" ">>, <<"\n">>, <<"$">>, <<"?", "1">>, <<"h">>,
     StartMarker(1), <<ESC, "[", "m">>, <<"\r">>}
PlainPieces == {<<"b">>, <<" ">>, <<"\n">>}

\* the texts of at most n pieces
RECURSIVE TextsOf(_, _)
TextsOf(pieces, n) ==
    IF n = 0 THEN {<<>>}
    ELSE LET shorter == TextsOf(pieces, n - 1)
         IN  shorter \cup {t \o q : t \in shorter, q \in pieces}

CleanerTexts ==
    TextsOf(CleanerPieces, MaxPieces) \cup TextsOf(PlainPieces, MaxPlainPieces)
CleanerCommands == {<<"a", " ", "-", "l">>, <<" ", "a">>}

InitCleaner ==
    /\ InitManager([maxSessions |-> MaxSessions, maxBufferSize |-> BufferSize,
          defaultTimeout |-> DefaultTimeout])
    /\ retry = NoRetry
    /\ cleaner \in {[NoCleaner EXCEPT !.text = t, !.input = t, !.command = c,
                                      !.timestamp = 1] :
                       t \in CleanerTexts, c \in CleanerCommands}

Applied(fn, text) ==
    /\ cleaner' = [cleaner EXCEPT !.fn = fn, !.input = cleaner.text,
                                  !.text = text]
    /\ UNCHANGED <<now, config, retry, tailer, sessions, sess, nextObj, task,
                   procs, nextProc>>

ApplyCleanOutput ==
    /\ cleaner.fn # "fullCleanOutput"
    /\ Applied("cleanOutput", cleanOutput(cleaner.text))
ApplyCleanMarkers ==
    /\ cleaner.fn # "fullCleanOutput"
    /\ Applied("cleanMarkers",
               cleanMarkers(cleaner.text, Markers(cleaner.timestamp)))
ApplyCleanCommandEcho ==
    /\ cleaner.fn # "fullCleanOutput"
    /\ Applied("cleanCommandEcho",
               cleanCommandEcho(cleaner.text, cleaner.command))
ApplyCleanPrompt ==
    /\ cleaner.fn # "fullCleanOutput"
    /\ Applied("cleanPrompt", cleanPrompt(cleaner.text))
ApplyFullCleanOutput ==
    /\ cleaner.fn = "none"
    /\ \E markers \in {NoMarkers, Markers(cleaner.timestamp)} :
          /\ cleaner' = [cleaner EXCEPT
                           !.fn = "fullCleanOutput", !.input = cleaner.text,
                           !.marked = (markers # NoMarkers),
                           !.text = fullCleanOutput(cleaner.text,
                                                    cleaner.command, markers)]
          /\ UNCHANGED <<now, config, retry, tailer, sessions, sess, nextObj,
                         task, procs, nextProc>>

NextCleaner ==
    \/ ApplyCleanOutput
    \/ ApplyCleanMarkers
    \/ ApplyCleanCommandEcho
    \/ ApplyCleanPrompt
    \/ ApplyFullCleanOutput

SpecCleaner == InitCleaner /\ [][NextCleaner]_vars

\* ------------------------------------------------------------------ C31

\* the last two steps applied the same cleaner
AppliedTwice(fn) == cleaner.fn = fn /\ cleaner'.fn = fn

\* C31: each of cleanOutput, cleanMarkers, cleanCommandEcho (with one
\* command) and cleanPrompt, applied to its own result, returns it unchanged.
C31_StagesIdempotent ==
    [][\A fn \in {"cleanOutput", "cleanMarkers", "cleanCommandEcho",
                   "cleanPrompt"} :
          AppliedTwice(fn) => cleaner'.text = cleaner.text]_vars

\* cleanOutput was applied to a text with a line of one space between empty
\* lines, and its result holds three line feeds in a row
C31_Witness ==
    /\ cleaner.fn = "cleanOutput"
    /\ cleaner.input = <<"b", "\n", " ", "\n", "\n", "b">>
    /\ cleaner.text = <<"b", "\n", "\n", "\n", "b">>

\* the part of C31 that holds: the two stages that only drop the lines a
\* test of the line selects are idempotent
C31_LineFiltersIdempotent ==
    [][\A fn \in {"cleanMarkers", "cleanPrompt"} :
          AppliedTwice(fn) => cleaner'.text = cleaner.text]_vars

\* cleanOutput is not: a second application changes its own result
C31_CleanOutputIdempotent ==
    [][AppliedTwice("cleanOutput") => cleaner'.text = cleaner.text]_vars

\* ------------------------------------------------------------------ C32

\* the text holds no control character and no rest of a private mode
\* sequence, no marker and no echo of one, no line with the command's first
\* word, and no prompt line
CleanText(text, command, markers) ==
    LET lines == Split(text, "\n")
    IN  /\ \A i \in 1..Len(text) : text[i] \notin {ESC, BEL, BS, "\r"}
        /\ StripPrivateRest(text) = text
        /\ \A i \in 1..Len(lines) :
              /\ ~Includes(lines[i], markers.startMarker)
              /\ ~Includes(lines[i], markers.endMarker)
              /\ ~Includes(lines[i], markers.exitMarker)
              /\ ~TestPrefix(EchoOfMarker, Trim(lines[i]))
              /\ ~Includes(lines[i], FirstWord(command))
              /\ ~IsPromptLine(lines[i])

\* the text without the white space at the end of its lines and of the
\* whole, and with its runs of three or more line feeds collapsed
Normalised(text) == TrimEnd(CollapseBlankLines(TrimLineEnds(text)))

\* the non-blank lines of the text, right-trimmed, joined again, without
\* the white space before the first of them
NonBlankLines(text) ==
    LET lines == Split(text, "\n")
        keep  == {i \in 1..Len(lines) : Trim(lines[i]) # <<>>}
    IN  Trim(Join(MapTrimEnd(KeepIndices(lines, keep, 1)), "\n"))

\* a step that applies the whole pipeline to a clean text
CleansCleanText ==
    /\ cleaner.fn = "none" /\ cleaner'.fn = "fullCleanOutput"
    /\ CleanText(cleaner.text, cleaner.command, Markers(cleaner.timestamp))

\* C32 as stated: the pipeline's result on a clean text differs from the
\* text only in trailing white space and in runs of three or more blank lines.
C32_OnlyNormalises ==
    [][CleansCleanText => Normalised(cleaner'.text) = Normalised(cleaner.text)]_vars

\* C32, amended: the pipeline's result on a clean text is the text's
\* non-blank lines, each without its trailing white space, and without the
\* white space before the first: every blank line is dropped.
C32_KeepsNonBlankLines ==
    [][CleansCleanText => cleaner'.text = NonBlankLines(cleaner.text)]_vars

\* the pipeline was applied to a clean text with a blank line between two
\* lines and white space at the start of a line, and returned another text
C32_Witness ==
    /\ cleaner.fn = "fullCleanOutput"
    /\ CleanText(cleaner.input, cleaner.command, Markers(cleaner.timestamp))
    /\ cleaner.input = <<"b", "\n", "\n", " ", "b", " ">>
    /\ cleaner.text = <<"b", "\n", " ", "b">>

\* ------------------------------------------------------------------ C33

\* the lines of the text but the first of those in `among` that contains
\* the command's leading token, in order and joined again
WithoutFirstEcho(text, command, among) ==
    LET lines == Split(text, "\n")
        token == FirstWord(command)
        echo  == {i \in among : token # <<>> /\ Includes(lines[i], token)}
        first == {i \in echo : \A j \in echo : i <= j}
    IN  Join(KeepIndices(lines, among \ first, 1), "\n")

\* the indices of the lines of the text, and of those that are not blank
AllLines(text) == 1..Len(Split(text, "\n"))
NonBlank(text) == {i \in AllLines(text) : Trim(Split(text, "\n")[i]) # <<>>}

\* a step that applies the command-echo stage
StripsEcho == cleaner'.fn = "cleanCommandEcho"

\* C33 as stated: the command-echo stage returns its input's lines without
\* the first that contains the command's leading token, and removes no
\* other line.
C33_RemovesOneLine ==
    [][StripsEcho =>
         cleaner'.text
           = WithoutFirstEcho(cleaner.text, cleaner.command,
                              AllLines(cleaner.text))]_vars

\* C33, amended: the command-echo stage returns its input's non-blank lines
\* without the first that contains the command's leading token; it removes
\* every blank line and no other line.
C33_RemovesOneNonBlankLine ==
    [][StripsEcho =>
         cleaner'.text
           = WithoutFirstEcho(cleaner.text, cleaner.command,
                              NonBlank(cleaner.text))]_vars

\* the stage was applied to two lines with the command's name and a blank
\* line between them: the second of the two is what it returned
C33_Witness ==
    /\ cleaner.fn = "cleanCommandEcho"
    /\ cleaner.command = <<"a", " ", "-", "l">>
    /\ cleaner.input = <<"a", "\n", "\n", "a">>
    /\ cleaner.text = <<"a">>

\* with a command that starts with a space the leading token is empty and
\* no line is taken for the echo
C33_NoToken ==
    /\ cleaner.fn = "cleanCommandEcho"
    /\ cleaner.command = <<" ", "a">>
    /\ cleaner.input = <<"a", "\n", "a">>
    /\ cleaner.text = cleaner.input

\* ------------------------------------------------------------------ C34

\* C34: the store never holds more than maxSessions sessions.
C34_StoreBounded == StoreSize <= config.maxSessions

\* two createSession calls for different ids are in their settle period at
\* once: both passed the size check while the store was empty
C34_Witness ==
    /\ StoreSize = 0
    /\ \E c, d \in Tasks :
          /\ task[c].pc = "settle" /\ task[d].pc = "settle"
          /\ task[c].sessionId # task[d].sessionId

\* both were stored: the store holds maxSessions + 1 sessions
C34_Exceeded == StoreSize = config.maxSessions + 1

\* ------------------------------------------------------------------ C35

\* session object o has a pty that has not exited and on which no
\* closeSession has called kill
LivePty(o) == sess[o].pty = "alive" /\ sess[o].status # "closed"

\* o is the session stored under its id, or that of a createSession in its
\* settle period
Registered(o) ==
    \/ sessions[sess[o].id] = o
    \/ \E c \in Tasks : task[c].pc = "settle" /\ task[c].obj = o

\* C35: every live pty belongs to the session stored under its id or to one
\* about to be stored, and no step replaces a stored session by another.
C35_LivePtyRegistered ==
    /\ [](\A o \in Objs : LivePty(o) => Registered(o))
    /\ [][\A id \in SessionIds :
            (sessions[id] # 0 /\ sessions'[id] # 0)
               => sessions'[id] = sessions[id]]_vars

\* two createSession calls for one id are in their settle period, each
\* with a pty of its own
C35_Witness ==
    \E c, d \in Tasks :
        /\ c # d
        /\ task[c].pc = "settle" /\ task[d].pc = "settle"
        /\ task[c].sessionId = task[d].sessionId
        /\ task[c].obj # task[d].obj
        /\ LivePty(task[c].obj) /\ LivePty(task[d].obj)

\* the second of them was stored over the first, whose pty is still alive
C35_Orphan ==
    \E o \in Objs :
        /\ LivePty(o) /\ sess[o].status = "ready"
        /\ sessions[sess[o].id] \notin {0, o}

\* ------------------------------------------------------------------ C36

\* C36: a session in the store is ready or busy, and its pty has not exited.
C36_StoredUsable ==
    \A id \in SessionIds :
        sessions[id] # 0
           => /\ sess[sessions[id]].status \in {"ready", "busy"}
              /\ sess[sessions[id]].pty # "exited"

\* the pty of a session exited while its createSession was in the settle
\* period: handleExit has marked the session closed
C36_Witness ==
    \E c \in Tasks :
        /\ task[c].pc = "settle"
        /\ sess[task[c].obj].pty = "exited"
        /\ sess[task[c].obj].status = "closed"
        /\ sessions[task[c].sessionId] = 0

\* that session was then marked ready and stored
C36_ExitedStored ==
    \E id \in SessionIds :
        /\ sessions[id] # 0
        /\ sess[sessions[id]].pty = "exited"
        /\ sess[sessions[id]].status = "ready"

\* ------------------------------------------------------------------ C37

\* C37: a session whose status is closed keeps that status in every step.
C37_ClosedIsTerminal ==
    [][\A o \in Objs :
          sess[o].status = "closed" => sess'[o].status = "closed"]_vars

\* an executeCommand is in its wait loop on a session that was closed
\* after the command was accepted
C37_Witness ==
    \E c \in Tasks :
        /\ task[c].op = "exec" /\ task[c].pc = "poll"
        /\ sess[task[c].obj].status = "closed"
        /\ sess[task[c].obj].lastCommand = task[c].command

\* the part of C37 about the command in flight: the steps of an
\* executeCommand that was accepted leave a closed session closed
C37_InFlightKeepsClosed ==
    [][\A c \in Tasks :
          (/\ task[c].pc \in Writing \cup {"poll", "found"}
           /\ task'[c] # task[c]
           /\ sess[task[c].obj].status = "closed")
             => sess'[task[c].obj].status = "closed"]_vars

\* ------------------------------------------------------------------ C38
\* A caller's commands, the first of which creates the session, and a
\* background process on it, and stopProcess called at any moment.
NextStop ==
    \/ Tick
    \/ \E o \in Objs, out \in Outputs, code \in ExitCodes : ShellRun(o, out, code)
    \/ \E c \in Tasks : CreatePty(c, TRUE)
    \/ \E c \in Tasks : CreateSettled(c)
    \/ \E t \in Timeouts : ExecuteCommand(1, 1, <<"l", "s">>, t)
    \/ \E c \in Tasks, t \in Timeouts :
          StartProcess(c, 1, <<"p", "s">>, t, ProcBufferSize)
    \/ \E c \in Tasks : ExecAccept(c)
    \/ \E c \in Tasks : ExecWrite(c)
    \/ \E c \in Tasks : ExecFound(c)
    \/ \E c \in Tasks : ExecTimeout(c)
    \/ \E c \in Tasks : ExecFinish(c)
    \/ \E c \in Calls : Return(c)
    \/ \E q \in Procs : StopProcess(q)
    \/ \E o \in Objs, prints \in InterruptPrints(MaxInterrupts) :
          ShellInterrupted(o, prints)

SpecStop == Init /\ [][NextStop]_vars

\* call c is a command accepted on session object o that has not returned
CommandInFlight(c, o) ==
    /\ task[c].pc \in Writing \cup {"poll", "found"}
    /\ task[c].obj = o

\* this step writes the interrupt byte to the pty of session object o
InterruptWritten(o) == sess'[o].interrupts = sess[o].interrupts + 1

\* C38: a stopProcess that writes the interrupt byte to a session's pty is
\* one of a running process whose command is in flight on that session, and
\* no other command is in flight there.
C38_InterruptsOwnCommand ==
    [][\A q \in Procs, o \in Objs :
          (StopCalled(q) /\ InterruptWritten(o))
             => /\ procs[q].status = "running"
                /\ \E c \in Tasks : CommandInFlight(c, o) /\ task[c].proc = q
                /\ \A c \in Tasks :
                      CommandInFlight(c, o) => task[c].proc = q]_vars

\* stopProcess has returned; it was given a process whose own command had
\* ended, and has written the interrupt byte to the session on which a
\* caller's command is in its wait loop: the shell has the interrupt to
\* answer, and the lines of the command it had not read are gone
C38_Witness ==
    /\ task[0].pc = "done" /\ task[0].op = "stopProcess"
    /\ procs[task[0].proc].status = "stopped"
    /\ \A c \in Tasks : task[c].op # "bg"
    /\ \E c \in Tasks, o \in Objs :
          /\ task[c].op = "exec" /\ CommandInFlight(c, o) /\ task[c].pc = "poll"
          /\ sess[o].ptyInterrupts > 0
          /\ sess[o].ptyInput = <<>>
          /\ ~Includes(sess[o].outputBuffer, EndMarker(task[c].timestamp))

\* the part of C38 about other commands: a stopProcess that writes the
\* interrupt byte finds no command of another call in flight on the session
C38_NoOtherInterrupted ==
    [][\A q \in Procs, o \in Objs :
          (StopCalled(q) /\ InterruptWritten(o))
             => \A c \in Tasks :
                   CommandInFlight(c, o) => task[c].proc = q]_vars

\* ------------------------------------------------------------------ C39

\* closeAllSessions(): closeSession has no await, so the calls the map makes
\* for the ids in the store run to their end one after the other, before
\* anything else does; Promise.all then resolves. Each closeSession has its
\* own try/catch around kill: killThrows holds the sessions whose kill throws
CloseAllSessions(killThrows) ==
    /\ ~Returning
    /\ \A o \in killThrows : \E id \in SessionIds : sessions[id] = o
    /\ LET stored(o) == \E id \in SessionIds : sessions[id] = o
           seen(o)   == IF sess[o].status = "none" THEN sess[o]
                        ELSE [sess[o] EXCEPT !.beforeCloseAll = TRUE]
       IN  Step([o \in Objs |->
                    IF stored(o)
                    THEN [Kill(seen(o), o \in killThrows) EXCEPT
                             !.status = "closed", !.wasClosed = TRUE]
                    ELSE seen(o)],
                [id \in SessionIds |-> 0],
                [c \in Calls |->
                    IF c = 0
                    THEN [Sync("closeAllSessions", 0, 0, Void)[0]
                            EXCEPT !.killThrew = (killThrows # {})]
                    ELSE IF task[c].pc = "createPty"
                    THEN [task[c] EXCEPT !.beforeCloseAll = TRUE]
                    ELSE task[c]],
                procs)
    /\ UNCHANGED <<now, config, utils, tailer, nextObj, nextProc>>

\* The session store with closeAllSessions, as WslMcpServer.stop calls it.
NextCloseAll ==
    \/ \E o \in Objs : PtyExit(o)
    \/ \E c \in Tasks, id \in SessionIds : CreateSession(c, id)
    \/ \E c \in Tasks, ptyOk \in BOOLEAN : CreatePty(c, ptyOk)
    \/ \E c \in Tasks : CreateSettled(c)
    \/ \E id \in SessionIds, killThrows \in BOOLEAN : CloseSession(id, killThrows)
    \/ \E killThrows \in SUBSET Objs : CloseAllSessions(killThrows)
    \/ \E c \in Calls : Return(c)

SpecCloseAll == InitStore /\ [][NextCloseAll]_vars

\* C39: once closeAllSessions was called, no session whose createSession had
\* started before is in the store, and each of them has been closed (kill
\* was called on its pty, or the pty had exited).
C39_AllClosed ==
    \A o \in Objs :
        sess[o].beforeCloseAll
           => /\ \A id \in SessionIds : sessions[id] # o
              /\ sess[o].status = "closed"

\* closeAllSessions has returned while a createSession that started before
\* it is in its settle period, its pty alive
C39_Witness ==
    /\ task[0].pc = "done" /\ task[0].op = "closeAllSessions"
    /\ \E c \in Tasks :
          /\ task[c].op = "create" /\ task[c].pc = "settle"
          /\ sess[task[c].obj].beforeCloseAll
          /\ sess[task[c].obj].pty = "alive"

\* that session was stored afterwards, ready, its pty alive
C39_StoredAfterwards ==
    \E id \in SessionIds :
        /\ sessions[id] # 0
        /\ sess[sessions[id]].beforeCloseAll
        /\ sess[sessions[id]].status = "ready"
        /\ sess[sessions[id]].pty = "alive"

\* what holds of C39: closeAllSessions empties the store and closes every
\* session that was in it
C39_StoredClosed ==
    [][(task[0].pc = "idle" /\ task'[0].op = "closeAllSessions")
         => /\ \A id \in SessionIds : sessions'[id] = 0
            /\ \A id \in SessionIds :
                  sessions[id] # 0 => sess'[sessions[id]].status = "closed"]_vars

\* ------------------------------------------------------------- withRetry

MaxRetries == 2
MaxDelay == 2

\* Errors.unknownError(error)
unknownError(error) == Outcome("error", TRUE, "UNKNOWN_ERROR")

\* what fn may throw: two TerminalErrors and an error of another class
RetryErrors ==
    {Outcome("error", TRUE, "SESSION_BUSY"),
     Outcome("error", TRUE, "COMMAND_TIMEOUT"),
     Outcome("error", FALSE, "Error")}

\* the configurations: retryOn absent, empty, or one code
RetryConfigs ==
    {[maxRetries |-> n, delay |-> d, backoff |-> b, filtered |-> f,
      retryOn |-> codes] :
        n \in 0..MaxRetries, d \in 1..MaxDelay, b \in BOOLEAN,
        f \in BOOLEAN, codes \in {{}, {"SESSION_BUSY"}}}

InitRetry ==
    /\ InitManager([maxSessions |-> MaxSessions, maxBufferSize |-> BufferSize,
          defaultTimeout |-> DefaultTimeout])
    /\ cleaner = NoCleaner
    /\ retry \in {[NoRetry EXCEPT !.config = cfg] :
                     cfg \in {g \in RetryConfigs : g.filtered \/ g.retryOn = {}}}

\* a delay that stays what it is
SameDelay(delay, backoff) == delay

\* if (config.backoff) delay *= 2
NextDelay(delay, backoff) == IF backoff THEN 2 * delay ELSE delay

\* the head of the for loop with the attempt number at n: fn is called, or
\* the loop is left and lastError thrown
Attempt(r, n) ==
    IF n <= r.config.maxRetries
    THEN [r EXCEPT !.attempt = n, !.pc = "await"]
    ELSE [r EXCEPT !.attempt = n, !.pc = "thrown", !.outcome = r.lastError]

RetryStep(r) ==
    /\ retry' = r
    /\ UNCHANGED <<now, config, cleaner, tailer, sessions, sess, nextObj, task,
                   procs, nextProc>>

\* withRetry(fn, config) up to its first await
WithRetry ==
    /\ retry.pc = "idle"
    /\ RetryStep(Attempt([retry EXCEPT !.lastError = Null,
                                       !.delay = retry.config.delay], 0))

\* fn's promise is fulfilled: `return await fn()`
FnFulfilled ==
    /\ retry.pc = "await"
    /\ RetryStep([retry EXCEPT !.calls = Append(@, Value), !.pc = "returned",
                               !.outcome = Value])

\* fn's promise is rejected with `error`: the catch block, up to the sleep
\* or, on the last attempt, to the end of the loop
FnRejected(error) ==
    /\ retry.pc = "await"
    /\ LET r == [retry EXCEPT !.calls = Append(@, error)]
       IN  IF /\ error.terminal
              /\ r.config.filtered
              /\ error.code \notin r.config.retryOn
           THEN RetryStep([r EXCEPT !.pc = "thrown", !.outcome = error])
           ELSE LET kept == [r EXCEPT !.lastError =
                                IF error.terminal THEN error
                                ELSE unknownError(error)]
                IN  IF kept.attempt < kept.config.maxRetries
                    THEN RetryStep([kept EXCEPT !.pc = "sleep",
                                                !.slept = Append(@, kept.delay)])
                    ELSE RetryStep(Attempt(kept, kept.attempt + 1))

\* the timer of sleep(delay) fires: the delay is doubled with backoff, and
\* the loop goes on with the next attempt
SleepEnds ==
    /\ retry.pc = "sleep"
    /\ RetryStep(Attempt([retry EXCEPT !.delay =
                              NextDelay(retry.delay, retry.config.backoff)],
                         retry.attempt + 1))

NextRetry ==
    \/ WithRetry
    \/ FnFulfilled
    \/ \E error \in RetryErrors : FnRejected(error)
    \/ SleepEnds

\* fn's promise settles and the timer fires
SpecRetry == InitRetry /\ [][NextRetry]_vars /\ WF_vars(NextRetry)

\* ------------------------------------------------------------------ C40

\* the i-th call of fn ended with a TerminalError that retryOn excludes
Excluded(i) ==
    /\ retry.calls[i].kind = "error" /\ retry.calls[i].terminal
    /\ retry.config.filtered
    /\ retry.calls[i].code \notin retry.config.retryOn

\* the delay of the i-th sleep
DelayOf(i) ==
    IF retry.config.backoff THEN retry.config.delay * 2 ^ (i - 1)
    ELSE retry.config.delay

\* withRetry has returned or thrown
Settled == retry.pc \in {"returned", "thrown"}

RetryInvariant ==
    LET n == Len(retry.calls)
    IN  /\ n <= retry.config.maxRetries + 1
        \* no call of fn after one that succeeded or was excluded
        /\ \A i \in 1..n :
              (retry.calls[i] = Value \/ Excluded(i)) => i = n /\ Settled
        /\ retry.pc = "returned" <=> (n > 0 /\ retry.calls[n] = Value)
        /\ retry.pc = "returned" => retry.outcome = Value
        /\ retry.pc = "thrown" =>
              /\ n > 0
              /\ IF Excluded(n) THEN retry.outcome = retry.calls[n]
                 ELSE /\ n = retry.config.maxRetries + 1
                      /\ retry.outcome =
                            IF retry.calls[n].terminal THEN retry.calls[n]
                            ELSE unknownError(retry.calls[n])
        \* one sleep between two calls of fn, none after the last
        /\ Len(retry.slept) = IF Settled THEN n - 1 ELSE n
        /\ \A i \in 1..Len(retry.slept) : retry.slept[i] = DelayOf(i)

\* C40: withRetry ends, having called fn at most maxRetries + 1 times; it
\* returns the first value fn gives and calls fn no more, throws at once a
\* TerminalError that retryOn excludes, and else throws the last attempt's
\* error (one that is no TerminalError as UNKNOWN_ERROR) after
\* maxRetries + 1 failures; with backoff each sleep is twice the one before.
C40_RetryBounded == []RetryInvariant /\ <>Settled

\* withRetry has thrown after three failures with backoff, having slept
\* the delay and then twice the delay
C40_Witness ==
    /\ retry.pc = "thrown"
    /\ retry.config.backoff /\ retry.config.maxRetries = 2
    /\ Len(retry.calls) = 3
    /\ retry.slept = <<retry.config.delay, 2 * retry.config.delay>>
    /\ retry.outcome = retry.calls[3]

\* withRetry has thrown at the first failure, an excluded TerminalError,
\* with retries left
C40_Rethrown ==
    /\ retry.pc = "thrown" /\ Len(retry.calls) = 1 /\ Excluded(1)
    /\ retry.config.maxRetries > 0 /\ retry.slept = <<>>

\* withRetry has returned the value of the second call of fn
C40_ReturnedSecond ==
    /\ retry.pc = "returned" /\ Len(retry.calls) = 2
    /\ retry.calls[1].kind = "error"

====
